---------------------------- MODULE Spec2Model ----------------------------
(***************************************************************************)
(* A model of the reactive core of the repository:                         *)
(*   - the job scheduler (queueJob / queuePostFlushCb / flushJobs),         *)
(*   - the effect system (effect / track / trigger / stop) and computed,   *)
(*   - the keyed children diff (patchKeyedChildren / getSequence).         *)
(* Each subsystem has its own specification; the variables of the other    *)
(* subsystems stay at their initial value.                                 *)
(***************************************************************************)
EXTENDS Integers, Sequences, FiniteSets, TLC

VARIABLES
  \* ---- scheduler (packages/runtime-core/src/apiWatch.ts, scheduler part)
  queue,          \* const queue: (Job | null)[]
  postFlushCbs,   \* const postFlushCbs: Function[]
  isFlushing,     \* let isFlushing
  isFlushPending, \* let isFlushPending (true exactly while nextTick(flushJobs) is outstanding)
  seen,           \* the CountMap of the running flush (0 = no entry)
  dev,            \* the build flag __DEV__
  pc,             \* position inside flushJobs: idle | drain | job | cbs | cb | end
  cur,            \* the job or callback being executed
  cbs,            \* flushPostFlushCbs: the de-duplicated copy being drained
  selfTrig,       \* the jobs / callbacks whose body re-enqueues themselves on every run
  budget,         \* enqueue calls that running jobs may still make in this tick
  \* ---- scheduler history (observation only)
  runs,           \* executions of each job / callback in the current tick
  reqs,           \* queueJob calls per job in the current tick (saturating at 2)
  late,           \* jobs for which queueJob was called after they were dequeued in this tick
  pendingAtDeq,   \* the jobs waiting in the queue when cur was dequeued
  tickDone,       \* the flush of the current tick returned normally
  error,          \* "none" or the error that escaped flushJobs
  cbQueued,       \* jobs that callbacks of the running flushPostFlushCbs call enqueued
  superseded,     \* jobs that were waiting in the queue when their component was
                  \* updated by its parent in this tick, and not queued again since
  directRuns,     \* executions of each render effect by a parent's update in this tick
  renderCalls,    \* calls of render() made by outside code in this tick
  compState,      \* each component: mounted, or unmounted (its render effect was
                  \* stopped), and then what the next call of its job did
  \* ---- keyed children diff (runtime-core renderer, patchKeyedChildren)
  c1,             \* the old children
  c2,             \* the new children
  ops,            \* the host operations patchKeyedChildren performed, in order
  diffDone,       \* patchKeyedChildren has run
  \* ---- effect system (packages/reactivity/src/effect.ts) and computed
  deps,           \* targetMap: for each key its dep Set, in insertion order
  effDeps,        \* effect.deps of each effect (the keys whose dep it holds)
  active,         \* effect.active of each effect
  effectStack,    \* const effectStack
  activeEffect,   \* let activeEffect ("none" = undefined)
  shouldTrack,    \* let shouldTrack
  trackStack,     \* const trackStack
  dirty,          \* let dirty of the computed cell
  callStack,      \* the JavaScript call stack: effect runs, trigger calls, computed reads
  fuel,           \* operations that outside code and effect bodies may still perform
  \* ---- effect system history (observation only)
  lastRun,        \* the effect run that completed in the last step, if any
  notified,       \* effects without a computed cell whose scheduler was called
  getterRuns,     \* invocations of the computed getter since its last dependency update
  getterThrew,    \* one of these invocations threw
  cachedRead,     \* computed.value was read while not dirty since that update
  cell            \* what the cached value of the computed cell was computed from,
                  \* and what the read of computed.value in the last step returned

schedVars == <<queue, postFlushCbs, isFlushing, isFlushPending, seen, dev, pc, cur,
               cbs, selfTrig, budget, runs, reqs, late, pendingAtDeq, tickDone, error,
               cbQueued, superseded, directRuns, renderCalls, compState>>

\* reactive and read-only wrappers
VARIABLES
  rawToReactive,  \* rawToReactive / reactiveToRaw: the proxies made by reactive()
  rawToReadonly,  \* rawToReadonly / readonlyToRaw: the proxies made by readonly()
                  \* and shallowReadonly()
  proxyCount,     \* proxies created so far (the identity of the next one)
  held,           \* the objects and proxies that user code has a reference to
  val,            \* the own property v of each raw object
  ro,             \* held values that are a read-only wrapper or were read from one
  roPlain,        \* held values read from a deep read-only wrapper as the value of
                  \* a property that holds an observable plain object
  roWrites,       \* values of ro through which a write or delete changed data or
                  \* called trigger
  writes          \* writes and deletes made so far

\* one watcher made by doWatch
VARIABLES
  opts,           \* the arguments of the watch / watchEffect call
  watcher,        \* the watcher: the runner's active flag and dep membership, oldValue,
                  \* the cleanup registered by onInvalidate, membership in
                  \* instance.effects, and the history of callback calls
  nested,         \* the nested property state.count.a.b
  tickWrites,     \* assignments to nested in the current tick
  wTickDone,      \* the current tick has ended (its flush, if any, returned)
  fired,          \* the runner's scheduler was called in the current tick
  changed,        \* an assignment changed nested in the current tick
  prevOld         \* oldValue when the current tick began

\* one call of getSequence
VARIABLES
  seqIn,          \* the argument
  seqOut          \* the returned index list (<<-1>>: not called yet)

\* ---- mounting and unmounting a root vnode (render of part_002)
VARIABLES
  hostChildren,   \* the child list of the host container
  hostBefore,     \* the child list before the mount
  containerVNode, \* container._vnode, with the el and anchor of its rendered root
  pendingLeave,   \* elements whose removal a transition leave hook has not called yet
  mountPhase,     \* "fresh", "mounted" or "unmounted"
  mountedRoot     \* the vnode of the last render(vnode, container)

\* ---- component props (initProps of part_003)
VARIABLES
  propsOptions,   \* instance.type.props: the declaration of each key
  rawProps,       \* the props the parent passes (vnode.props)
  instanceProps,  \* instance.props
  instanceAttrs   \* instance.attrs

\* ---- provide / inject (part_002, createComponentInstance)
VARIABLES
  providesObjs,    \* the provides objects: own properties and prototype
  instProvides,    \* instance.provides of each created instance (0: not created)
  currentInstance, \* the instance whose setup is running
  setupDone,       \* the instances whose setup has returned
  provideLog,      \* the last value each instance provided for each key
  provideCount,    \* provide calls of the running setup
  injected         \* what inject returned to each instance for each key

\* ---- template parsing (compiler-core/src/parse.ts)
VARIABLES
  templateSrc,    \* the source between <p> and </p>, one entry per character or tag
  keepComments,   \* __DEV__: comments are kept
  parsedAst       \* the element node that parsing <p>...</p> yields

\* ---- ref cells (reactivity/src/ref.ts, createRef)
VARIABLES
  refShallow,     \* shallow of createRef(rawValue, shallow)
  refRaw,         \* let rawValue of the ref
  refVal,         \* let value of the ref
  refDep,         \* the effects in the dep of the ref's key 'value'
  refSets,        \* writes of r.value made so far
  refLast         \* the last write of r.value: what was written, what was
                  \* stored, what the write before wrote, which effects it ran

\* ---- key enumeration (reactivity/src/baseHandlers.ts: set, deleteProperty, ownKeys)
VARIABLES
  itIsArray,      \* the target is an array
  itTarget,       \* the target's own keys and their values
  itLength,       \* the length of the array
  itDeps,         \* depsMap of the target: for each key its dep Set
  itOps,          \* writes made so far
  itLast          \* the last write: its trigger type, whether it changed the set
                  \* of own keys, the effects that had enumerated the keys, the
                  \* effects it ran

\* ---- prop defaults and tracking (componentProps.ts resolvePropValue, effect.ts track)
VARIABLES
  dfOptions,      \* the default each declared prop has: none, a value, a function
  dfRawProps,     \* the props the parent passes
  dfPrevProps,    \* the props the parent passed before (updateProps: rawPrevProps)
  dfUpdating,     \* the props are resolved by updateProps (else by initProps)
  dfActiveEffect, \* activeEffect when the props are resolved
  dfShouldTrack,  \* shouldTrack when the props are resolved
  dfDeps,         \* for each prop, the dep Set of the reactive key that its
                  \* default function reads
  dfInvoked,      \* the props whose default function was invoked
  dfDone          \* the props were resolved

\* ---- host element of a component vnode (renderer.ts setupRenderEffect, update branch)
VARIABLES
  hcWraps,        \* for each parent: its subTree is its child's component vnode
  hcVNodeEl,      \* instance.vnode.el of each component
  hcUpdates,      \* self-triggered updates made so far
  hcLast          \* the last update: the component, its new root element,
                  \* whether the root element changed

diffVars == <<c1, c2, ops, diffDone>>

reactVars == <<deps, effDeps, active, effectStack, activeEffect, shouldTrack, trackStack,
               dirty, callStack, fuel, lastRun, notified, getterRuns, getterThrew,
               cachedRead, cell>>

wrapVars == <<rawToReactive, rawToReadonly, proxyCount, held, val, ro, roPlain, roWrites,
              writes>>

watchVars == <<opts, watcher, nested, tickWrites, wTickDone, fired, changed, prevOld>>

seqVars == <<seqIn, seqOut>>

mountVars == <<hostChildren, hostBefore, containerVNode, pendingLeave, mountPhase,
              mountedRoot>>

\* the variables of the subsystems that follow the watchers
propVars == <<propsOptions, rawProps, instanceProps, instanceAttrs>>

provVars == <<providesObjs, instProvides, currentInstance, setupDone, provideLog,
             provideCount, injected>>

parseVars == <<templateSrc, keepComments, parsedAst>>

refVars == <<refShallow, refRaw, refVal, refDep, refSets, refLast>>

iterVars == <<itIsArray, itTarget, itLength, itDeps, itOps, itLast>>

defVars == <<dfOptions, dfRawProps, dfPrevProps, dfUpdating, dfActiveEffect, dfShouldTrack, dfDeps,
            dfInvoked, dfDone>>

hocVars == <<hcWraps, hcVNodeEl, hcUpdates, hcLast>>

extVars == <<seqVars, mountVars, propVars, provVars, parseVars, refVars, iterVars, defVars, hocVars>>

nonSchedVars == <<diffVars, reactVars, wrapVars, watchVars, extVars>>
nonDiffVars == <<schedVars, reactVars, wrapVars, watchVars, extVars>>
nonReactVars == <<schedVars, diffVars, wrapVars, watchVars, extVars>>
nonWrapVars == <<schedVars, diffVars, reactVars, watchVars, extVars>>
coreVars == <<schedVars, diffVars, reactVars, wrapVars, watchVars>>

nonSeqVars == <<coreVars, mountVars, propVars, provVars, parseVars, refVars, iterVars, defVars, hocVars>>
nonMountVars == <<coreVars, seqVars, propVars, provVars, parseVars, refVars, iterVars, defVars, hocVars>>
nonPropVars == <<coreVars, seqVars, mountVars, provVars, parseVars, refVars, iterVars, defVars, hocVars>>
nonProvVars == <<coreVars, seqVars, mountVars, propVars, parseVars, refVars, iterVars, defVars, hocVars>>
nonParseVars == <<coreVars, seqVars, mountVars, propVars, provVars, refVars, iterVars, defVars, hocVars>>

nonRefVars == <<coreVars, seqVars, mountVars, propVars, provVars, parseVars, iterVars, defVars, hocVars>>
nonIterVars == <<coreVars, seqVars, mountVars, propVars, provVars, parseVars, refVars, defVars, hocVars>>
nonDefVars == <<coreVars, seqVars, mountVars, propVars, provVars, parseVars, refVars, iterVars, hocVars>>
nonHocVars == <<coreVars, seqVars, mountVars, propVars, provVars, parseVars, refVars, iterVars, defVars>>
vars == <<coreVars, extVars>>

(***************************************************************************)
(* Bounds                                                                  *)
(***************************************************************************)
MaxOps == 2      \* enqueue calls made by running jobs / callbacks per tick
MaxPost == 2     \* length of postFlushCbs that outside code builds up
MaxKeys == 3     \* distinct keys among the children handed to patchKeyedChildren
MaxFuel == 6     \* operations of outside code and effect bodies in one behaviour
MaxRender == 1   \* render() calls of outside code per tick
MaxProxies == 3  \* proxies created, the one inside the ref included
MaxTickWrites == 2 \* assignments to the watched property in one tick
MaxWrites == 1   \* writes and deletes made through held objects and wrappers
MaxTrack == 2    \* pauseTracking calls whose resetTracking is still outstanding

(***************************************************************************)
(* Scheduler: jobs                                                         *)
(***************************************************************************)
Null == "null"
Infinity == 1000000

\* instance.update of a parent component (R1) and of its child (R2)
RenderJobs == {"R1", "R2"}
\* applyCb of a watcher created with a callback and flush: 'pre'
PreJobs == {"W"}
Jobs == RenderJobs \cup PreJobs
\* applyCb of a flush: 'post' watcher, or a mounted / updated hook
PostCbs == {"P", "Q"}
\* the closure () => { instance.isUnmounted = true } that unmountComponent queues
UnmountCb == "U"
AllCbs == PostCbs \cup {UnmountCb}

\* effect.id = uid++ : the parent's render effect is created before the child's;
\* applyCb is a plain closure and carries no id.
HasId(j) == j \in RenderJobs
JobId(j) == CASE j = "R1" -> 1 [] j = "R2" -> 2

\* component B is a descendant of component A
IsAncestor(a, b) == a = "R1" /\ b = "R2"

\* getId = job => (job.id == null ? Infinity : job.id)
getId(job) == IF HasId(job) THEN JobId(job) ELSE Infinity

Range(s) == {s[i] : i \in 1..Len(s)}

\* Array.prototype.sort with the comparator getId(a) - getId(b): a stable sort
RECURSIVE InsertJob(_, _)
InsertJob(sorted, j) ==
  IF sorted = <<>> THEN <<j>>
  ELSE LET last == sorted[Len(sorted)] IN
       IF getId(last) - getId(j) > 0
       THEN Append(InsertJob(SubSeq(sorted, 1, Len(sorted) - 1), j), last)
       ELSE Append(sorted, j)

RECURSIVE SortQueue(_)
SortQueue(q) ==
  IF q = <<>> THEN <<>>
  ELSE InsertJob(SortQueue(SubSeq(q, 1, Len(q) - 1)), q[Len(q)])

\* the copy of postFlushCbs taken without the Set
NoDedupe(s) == s

\* [...new Set(postFlushCbs)]
RECURSIVE Dedupe(_)
Dedupe(s) ==
  IF s = <<>> THEN <<>>
  ELSE LET init == Dedupe(SubSeq(s, 1, Len(s) - 1)) IN
       IF s[Len(s)] \in Range(init) THEN init ELSE Append(init, s[Len(s)])

(***************************************************************************)
(* Scheduler: operations                                                   *)
(***************************************************************************)
\* queueFlush(): the new value of isFlushPending
queueFlush == IF ~isFlushing /\ ~isFlushPending THEN TRUE ELSE isFlushPending

\* the mutated queueJob: no identity check
QueueJobNoDedupe(q, job) == Append(q, job)

\* queueJob(job): the new queue
QueueJobPush(q, job) == IF job \in Range(q) THEN q ELSE Append(q, job)

\* the module state that queueJob reads and writes; scheduled counts the
\* nextTick(flushJobs) calls made
SchedState == [queue |-> queue, isFlushPending |-> isFlushPending,
               isFlushing |-> isFlushing, scheduled |-> 0]

\* queueJob(job) as a function of that state
QueueJobOn(st, job) ==
  LET flushNow == job \notin Range(st.queue) /\ ~st.isFlushing /\ ~st.isFlushPending
  IN [queue |-> QueueJobPush(st.queue, job),
      isFlushPending |-> IF flushNow THEN TRUE ELSE st.isFlushPending,
      isFlushing |-> st.isFlushing,
      scheduled |-> IF flushNow THEN st.scheduled + 1 ELSE st.scheduled]

\* queueJob(job) as a whole: queue and the pending flag
queueJob(job) ==
  /\ queue' = QueueJobOn(SchedState, job).queue
  /\ isFlushPending' = QueueJobOn(SchedState, job).isFlushPending

\* queuePostFlushCb(cb)
queuePostFlushCb(cb) ==
  /\ postFlushCbs' = Append(postFlushCbs, cb)
  /\ isFlushPending' = queueFlush

\* invalidateJob left out: the queue keeps the entry
InvalidateNothing(q, job) == q

\* invalidateJob: the first entry that is the job becomes null
invalidateJob(q, job) ==
  IF job \in Range(q)
  THEN LET i == CHOOSE k \in 1..Len(q) : q[k] = job /\ \A m \in 1..(k - 1) : q[m] # job
       IN [q EXCEPT ![i] = Null]
  ELSE q

\* the while loop of flushJobs left without looking at the queue
DrainDoneEarly(q) == TRUE

\* the while loop of flushJobs ends when queue.shift() returns undefined
DrainDone(q) == q = <<>>

\* the mutated recursion check: one more run allowed
RecursionExceededLate(count) == count > 100 + 1

RECURSION_LIMIT == 100

\* checkRecursiveUpdates: does it throw for a job seen `count` times before?
RecursionExceeded(count) == count > RECURSION_LIMIT

\* an inactive effect called as if it had no scheduler
InactiveCallRuns(hasSched) == "rendered"

\* reactiveEffect() of an effect that was stopped: with a scheduler in its
\* options it returns undefined, without one it calls fn
InactiveCall(hasSched) == IF hasSched THEN "skipped" ELSE "rendered"

\* the test after the drain that looks at the queue only
FlushMoreQueueOnly(q, p) == q # <<>>

\* if (queue.length || postFlushCbs.length): flushJobs calls itself again
FlushMore(q, p) == q # <<>> \/ p # <<>>

\* checkRecursiveUpdates(seen, fn) when it does not throw
SeenAfter(fn) == IF dev THEN [seen EXCEPT ![fn] = @ + 1] ELSE seen

\* history bookkeeping of a queueJob call made for job j
NoteRequest(j, startsTick) ==
  LET r0 == IF startsTick THEN [x \in Jobs |-> 0] ELSE reqs
      l0 == IF startsTick THEN {} ELSE late
  IN /\ reqs' = [r0 EXCEPT ![j] = IF @ < 2 THEN @ + 1 ELSE @]
     /\ late' = IF ~startsTick /\ runs[j] > 0 THEN l0 \cup {j} ELSE l0
     /\ runs' = IF startsTick THEN [x \in Jobs \cup AllCbs |-> 0] ELSE runs
     /\ directRuns' = IF startsTick THEN [x \in RenderJobs |-> 0] ELSE directRuns
     /\ renderCalls' = IF startsTick THEN 0 ELSE renderCalls
     /\ superseded' = IF startsTick THEN {}
                      ELSE IF j \in Range(queue) THEN superseded ELSE superseded \ {j}
     /\ tickDone' = FALSE

NoteCb(startsTick) ==
  /\ reqs' = IF startsTick THEN [x \in Jobs |-> 0] ELSE reqs
  /\ late' = IF startsTick THEN {} ELSE late
  /\ runs' = IF startsTick THEN [x \in Jobs \cup AllCbs |-> 0] ELSE runs
  /\ directRuns' = IF startsTick THEN [x \in RenderJobs |-> 0] ELSE directRuns
  /\ renderCalls' = IF startsTick THEN 0 ELSE renderCalls
  /\ superseded' = IF startsTick THEN {} ELSE superseded
  /\ tickDone' = FALSE

\* code outside any flush (an event handler, a sync watcher, setup) makes the
\* scheduler of a render effect or of a pre watcher enqueue its job
QueueJobExt(j) ==
  /\ pc = "idle"
  /\ HasId(j) => compState[j] = "mounted"
  /\ queueJob(j)
  /\ NoteRequest(j, tickDone)
  /\ UNCHANGED nonSchedVars
  /\ UNCHANGED compState
  /\ UNCHANGED cbQueued
  /\ UNCHANGED <<postFlushCbs, isFlushing, seen, dev, pc, cur, cbs, selfTrig, budget,
                 pendingAtDeq, error>>

\* code outside any flush queues a post-flush callback
QueuePostExt(cb) ==
  /\ pc = "idle"
  /\ Len(postFlushCbs) < MaxPost
  /\ queuePostFlushCb(cb)
  /\ NoteCb(tickDone)
  /\ UNCHANGED nonSchedVars
  /\ UNCHANGED compState
  /\ UNCHANGED cbQueued
  /\ UNCHANGED <<queue, isFlushing, seen, dev, pc, cur, cbs, selfTrig, budget,
                 pendingAtDeq, error>>

\* flushJobs, from its first statement up to the while loop. getId(null) throws
\* a TypeError when the comparator meets a null entry.
FlushBegin(freshSeen) ==
  /\ isFlushPending' = FALSE
  /\ isFlushing' = TRUE
  /\ seen' = IF freshSeen THEN [x \in Jobs \cup AllCbs |-> 0] ELSE seen
  /\ IF Len(queue) >= 2 /\ Null \in Range(queue)
     THEN /\ queue' = queue
          /\ pc' = "idle"
          /\ error' = "TypeError"
     ELSE /\ queue' = SortQueue(queue)
          /\ pc' = "drain"
          /\ error' = error

\* the microtask scheduled by nextTick(flushJobs) runs
FlushStart ==
  /\ pc = "idle"
  /\ isFlushPending
  /\ FlushBegin(TRUE)
  /\ budget' = MaxOps
  /\ UNCHANGED nonSchedVars
  /\ UNCHANGED compState
  /\ UNCHANGED <<cbQueued, superseded, directRuns, renderCalls>>
  /\ UNCHANGED <<postFlushCbs, dev, cur, cbs, selfTrig, runs, reqs, late,
                 pendingAtDeq, tickDone>>

\* a job is shifted, passes checkRecursiveUpdates and is called
RunJob ==
  /\ pc = "drain"
  /\ queue # <<>>
  /\ Head(queue) # Null
  /\ ~(dev /\ RecursionExceeded(seen[Head(queue)]))
  /\ queue' = Tail(queue)
  /\ cur' = Head(queue)
  /\ seen' = SeenAfter(Head(queue))
  /\ runs' = [runs EXCEPT ![Head(queue)] = @ + 1]
  /\ pendingAtDeq' = Range(Tail(queue)) \ {Null}
  /\ pc' = "job"
  /\ compState' = IF HasId(Head(queue)) /\ compState[Head(queue)] # "mounted"
                  THEN [compState EXCEPT ![Head(queue)] = InactiveCall(TRUE)]
                  ELSE compState
  /\ UNCHANGED nonSchedVars
  /\ UNCHANGED <<cbQueued, superseded, directRuns, renderCalls>>
  /\ UNCHANGED <<postFlushCbs, isFlushing, isFlushPending, dev, cbs, selfTrig, budget,
                 reqs, late, tickDone, error>>

\* a job is shifted and checkRecursiveUpdates throws: the error leaves flushJobs
JobRecursionError ==
  /\ pc = "drain"
  /\ queue # <<>>
  /\ Head(queue) # Null
  /\ dev /\ RecursionExceeded(seen[Head(queue)])
  /\ queue' = Tail(queue)
  /\ pc' = "idle"
  /\ error' = "recursion"
  /\ UNCHANGED nonSchedVars
  /\ UNCHANGED compState
  /\ UNCHANGED <<cbQueued, superseded, directRuns, renderCalls>>
  /\ UNCHANGED <<postFlushCbs, isFlushing, isFlushPending, seen, dev, cur, cbs,
                 selfTrig, budget, runs, reqs, late, pendingAtDeq, tickDone>>

\* a null entry left by invalidateJob is shifted and skipped
SkipNull ==
  /\ pc = "drain"
  /\ queue # <<>>
  /\ Head(queue) = Null
  /\ queue' = Tail(queue)
  /\ UNCHANGED nonSchedVars
  /\ UNCHANGED compState
  /\ UNCHANGED <<cbQueued, superseded, directRuns, renderCalls>>
  /\ UNCHANGED <<postFlushCbs, isFlushing, isFlushPending, seen, dev, pc, cur, cbs,
                 selfTrig, budget, runs, reqs, late, pendingAtDeq, tickDone, error>>

\* updateComponent with shouldUpdateComponent true, reached from the patch that
\* the running render effect of the parent performs: the child's queued job is
\* invalidated and the child's render effect is called directly
ParentUpdateChild(child) ==
  /\ pc = "job"
  /\ IsAncestor(cur, child)
  /\ compState[child] = "mounted"
  /\ budget > 0
  /\ budget' = budget - 1
  /\ queue' = invalidateJob(queue, child)
  /\ directRuns' = [directRuns EXCEPT ![child] = @ + 1]
  /\ superseded' = IF child \in Range(queue) THEN superseded \cup {child} ELSE superseded
  /\ UNCHANGED nonSchedVars
  /\ UNCHANGED compState
  /\ UNCHANGED <<cbQueued, renderCalls>>
  /\ UNCHANGED <<postFlushCbs, isFlushing, isFlushPending, seen, dev, pc, cur, cbs,
                 selfTrig, runs, reqs, late, pendingAtDeq, tickDone, error>>

\* the running job or callback changes state that a render effect or a pre
\* watcher depends on: the scheduler of that effect calls queueJob
BodyQueueJob(j) ==
  /\ pc \in {"job", "cb", "rcb"}
  /\ HasId(j) => compState[j] = "mounted"
  /\ cur \notin selfTrig
  /\ budget > 0
  /\ budget' = budget - 1
  /\ queueJob(j)
  /\ NoteRequest(j, FALSE)
  /\ UNCHANGED nonSchedVars
  /\ UNCHANGED compState
  /\ cbQueued' = IF pc = "job" THEN cbQueued ELSE cbQueued \cup {j}
  /\ UNCHANGED <<postFlushCbs, isFlushing, seen, dev, pc, cur, cbs, selfTrig,
                 pendingAtDeq, error>>

\* the running job or callback queues a post-flush callback
BodyQueuePost(cb) ==
  /\ pc \in {"job", "cb", "rcb"}
  /\ cur \notin selfTrig
  /\ budget > 0
  /\ budget' = budget - 1
  /\ queuePostFlushCb(cb)
  /\ UNCHANGED nonSchedVars
  /\ UNCHANGED compState
  /\ UNCHANGED <<cbQueued, superseded, directRuns, renderCalls>>
  /\ UNCHANGED <<queue, isFlushing, seen, dev, pc, cur, cbs, selfTrig, runs, reqs,
                 late, pendingAtDeq, tickDone, error>>

\* unmountComponent, reached from the patch that the running render effect of
\* the parent performs: the child's render effect is stopped, its job stays in
\* the queue, and a callback that sets isUnmounted is queued
ParentUnmountChild(child) ==
  /\ pc = "job"
  /\ IsAncestor(cur, child)
  /\ compState[child] = "mounted"
  /\ budget > 0
  /\ budget' = budget - 1
  /\ compState' = [compState EXCEPT ![child] = "unmounted"]
  /\ queuePostFlushCb(UnmountCb)
  /\ UNCHANGED nonSchedVars
  /\ UNCHANGED <<cbQueued, superseded, directRuns, renderCalls>>
  /\ UNCHANGED <<queue, isFlushing, seen, dev, pc, cur, cbs, selfTrig, runs, reqs,
                 late, pendingAtDeq, tickDone, error>>

\* render(vnode, container) called by outside code while a flush is pending,
\* with nothing in postFlushCbs: its patch reaches updateComponent for the root
\* component (and, when withChild, the root's render updates the child), which
\* invalidates the queued job and calls the render effect directly
RenderUpdate(withChild) ==
  LET comps == IF withChild THEN {"R1", "R2"} ELSE {"R1"}
      q1 == invalidateJob(queue, "R1")
  IN /\ pc = "idle"
     /\ isFlushPending
     /\ postFlushCbs = <<>>
     /\ withChild => compState["R2"] = "mounted"
     /\ renderCalls < MaxRender
     /\ renderCalls' = renderCalls + 1
     /\ queue' = IF withChild THEN invalidateJob(q1, "R2") ELSE q1
     /\ directRuns' = [x \in RenderJobs |->
                         IF x \in comps THEN directRuns[x] + 1 ELSE directRuns[x]]
     /\ superseded' = superseded \cup (comps \cap Range(queue))
     /\ UNCHANGED nonSchedVars
     /\ UNCHANGED <<cbQueued, compState>>
     /\ UNCHANGED <<postFlushCbs, isFlushing, isFlushPending, seen, dev, pc, cur, cbs,
                    selfTrig, budget, runs, reqs, late, pendingAtDeq, tickDone, error>>

\* the running job throws in a production build: handleError finds no handler,
\* logError throws the error again and it leaves flushJobs
JobThrow ==
  /\ pc = "job"
  /\ ~dev
  /\ pc' = "idle"
  /\ cur' = Null
  /\ error' = "thrown"
  /\ UNCHANGED nonSchedVars
  /\ UNCHANGED <<cbQueued, superseded, directRuns, renderCalls, compState>>
  /\ UNCHANGED <<queue, postFlushCbs, isFlushing, isFlushPending, seen, dev, cbs,
                 selfTrig, budget, runs, reqs, late, pendingAtDeq, tickDone>>

\* the running post-flush callback throws in a production build
CbThrow ==
  /\ pc \in {"cb", "rcb"}
  /\ ~dev
  /\ pc' = "idle"
  /\ cur' = Null
  /\ cbs' = <<>>
  /\ error' = "thrown"
  /\ UNCHANGED nonSchedVars
  /\ UNCHANGED <<cbQueued, superseded, directRuns, renderCalls, compState>>
  /\ UNCHANGED <<queue, postFlushCbs, isFlushing, isFlushPending, seen, dev,
                 selfTrig, budget, runs, reqs, late, pendingAtDeq, tickDone>>

\* the running job returns
JobEnd ==
  /\ pc = "job"
  /\ cur \notin selfTrig
  /\ pc' = "drain"
  /\ cur' = Null
  /\ UNCHANGED nonSchedVars
  /\ UNCHANGED compState
  /\ UNCHANGED <<cbQueued, superseded, directRuns, renderCalls>>
  /\ UNCHANGED <<queue, postFlushCbs, isFlushing, isFlushPending, seen, dev, cbs,
                 selfTrig, budget, runs, reqs, late, pendingAtDeq, tickDone, error>>

\* a self-triggering pre watcher callback: its body writes its own source, the
\* runner's scheduler calls queueJob(applyCb), and it returns
JobSelfTrigger ==
  /\ pc = "job"
  /\ cur \in selfTrig
  /\ queueJob(cur)
  /\ NoteRequest(cur, FALSE)
  /\ pc' = "drain"
  /\ cur' = Null
  /\ UNCHANGED nonSchedVars
  /\ UNCHANGED compState
  /\ UNCHANGED cbQueued
  /\ UNCHANGED <<postFlushCbs, isFlushing, seen, dev, cbs, selfTrig, budget,
                 pendingAtDeq, error>>

\* the queue is drained: flushPostFlushCbs copies and clears postFlushCbs
PostBegin ==
  /\ pc = "drain"
  /\ DrainDone(queue)
  /\ cbs' = Dedupe(postFlushCbs)
  /\ postFlushCbs' = <<>>
  /\ pc' = "cbs"
  /\ UNCHANGED nonSchedVars
  /\ UNCHANGED compState
  /\ cbQueued' = {}
  /\ UNCHANGED <<superseded, directRuns, renderCalls>>
  /\ UNCHANGED <<queue, isFlushing, isFlushPending, seen, dev, cur, selfTrig, budget,
                 runs, reqs, late, pendingAtDeq, tickDone, error>>

\* the next callback of the copy passes checkRecursiveUpdates and is called
RunCb ==
  /\ pc \in {"cbs", "rcbs"}
  /\ cbs # <<>>
  /\ ~(dev /\ RecursionExceeded(seen[Head(cbs)]))
  /\ cbs' = Tail(cbs)
  /\ cur' = Head(cbs)
  /\ seen' = SeenAfter(Head(cbs))
  /\ runs' = [runs EXCEPT ![Head(cbs)] = @ + 1]
  /\ pendingAtDeq' = Range(queue) \ {Null}
  /\ pc' = IF pc = "cbs" THEN "cb" ELSE "rcb"
  /\ UNCHANGED nonSchedVars
  /\ UNCHANGED compState
  /\ UNCHANGED <<cbQueued, superseded, directRuns, renderCalls>>
  /\ UNCHANGED <<queue, postFlushCbs, isFlushing, isFlushPending, dev, selfTrig,
                 budget, reqs, late, tickDone, error>>

\* checkRecursiveUpdates throws for a callback: the error leaves flushJobs
CbRecursionError ==
  /\ pc \in {"cbs", "rcbs"}
  /\ cbs # <<>>
  /\ dev /\ RecursionExceeded(seen[Head(cbs)])
  /\ cbs' = <<>>
  /\ pc' = "idle"
  /\ error' = "recursion"
  /\ UNCHANGED nonSchedVars
  /\ UNCHANGED compState
  /\ UNCHANGED <<cbQueued, superseded, directRuns, renderCalls>>
  /\ UNCHANGED <<queue, postFlushCbs, isFlushing, isFlushPending, seen, dev, cur,
                 selfTrig, budget, runs, reqs, late, pendingAtDeq, tickDone>>

\* the running callback returns
CbEnd ==
  /\ pc \in {"cb", "rcb"}
  /\ cur \notin selfTrig
  /\ pc' = IF pc = "cb" THEN "cbs" ELSE "rcbs"
  /\ cur' = Null
  /\ UNCHANGED nonSchedVars
  /\ UNCHANGED compState
  /\ UNCHANGED <<cbQueued, superseded, directRuns, renderCalls>>
  /\ UNCHANGED <<queue, postFlushCbs, isFlushing, isFlushPending, seen, dev, cbs,
                 selfTrig, budget, runs, reqs, late, pendingAtDeq, tickDone, error>>

\* a self-triggering post watcher callback: its body writes its own source,
\* the runner's scheduler calls queuePostRenderEffect(applyCb), and it returns
CbSelfTrigger ==
  /\ pc \in {"cb", "rcb"}
  /\ cur \in selfTrig
  /\ queuePostFlushCb(cur)
  /\ pc' = IF pc = "cb" THEN "cbs" ELSE "rcbs"
  /\ cur' = Null
  /\ UNCHANGED nonSchedVars
  /\ UNCHANGED compState
  /\ UNCHANGED <<cbQueued, superseded, directRuns, renderCalls>>
  /\ UNCHANGED <<queue, isFlushing, seen, dev, cbs, selfTrig, budget, runs, reqs,
                 late, pendingAtDeq, tickDone, error>>

\* flushPostFlushCbs returned; isFlushing = false; nothing was queued meanwhile
FlushEnd ==
  /\ pc = "cbs"
  /\ cbs = <<>>
  /\ ~FlushMore(queue, postFlushCbs)
  /\ isFlushing' = FALSE
  /\ pc' = "idle"
  /\ tickDone' = TRUE
  /\ seen' = [x \in Jobs \cup AllCbs |-> 0]
  /\ UNCHANGED nonSchedVars
  /\ UNCHANGED compState
  /\ UNCHANGED <<cbQueued, superseded, directRuns, renderCalls>>
  /\ UNCHANGED <<queue, postFlushCbs, isFlushPending, dev, cur, cbs, selfTrig, budget,
                 runs, reqs, late, pendingAtDeq, error>>

\* flushPostFlushCbs returned; isFlushing = false; work was queued during the
\* flush: flushJobs(seen) is called again with the same CountMap
FlushAgain ==
  /\ pc = "cbs"
  /\ cbs = <<>>
  /\ FlushMore(queue, postFlushCbs)
  /\ FlushBegin(FALSE)
  /\ UNCHANGED nonSchedVars
  /\ UNCHANGED compState
  /\ UNCHANGED <<cbQueued, superseded, directRuns, renderCalls>>
  /\ UNCHANGED <<postFlushCbs, dev, cur, cbs, selfTrig, budget, runs, reqs, late,
                 pendingAtDeq, tickDone>>

\* render(vnode, container) is called outside any flush: after the patch it
\* calls flushPostFlushCbs, which copies and clears postFlushCbs, whatever
\* the queue holds
RenderCall ==
  /\ pc = "idle"
  /\ postFlushCbs # <<>>
  /\ renderCalls < MaxRender
  /\ renderCalls' = renderCalls + 1
  /\ cbs' = Dedupe(postFlushCbs)
  /\ postFlushCbs' = <<>>
  /\ seen' = [x \in Jobs \cup AllCbs |-> 0]
  /\ budget' = MaxOps
  /\ cbQueued' = {}
  /\ pc' = "rcbs"
  /\ UNCHANGED nonSchedVars
  /\ UNCHANGED compState
  /\ UNCHANGED <<superseded, directRuns>>
  /\ UNCHANGED <<queue, isFlushing, isFlushPending, dev, cur, selfTrig, runs, reqs,
                 late, pendingAtDeq, tickDone, error>>

\* the flushPostFlushCbs call of render returned
RenderEnd ==
  /\ pc = "rcbs"
  /\ cbs = <<>>
  /\ pc' = "idle"
  /\ UNCHANGED nonSchedVars
  /\ UNCHANGED compState
  /\ UNCHANGED <<cbQueued, superseded, directRuns, renderCalls>>
  /\ UNCHANGED <<queue, postFlushCbs, isFlushing, isFlushPending, seen, dev, cur, cbs,
                 selfTrig, budget, runs, reqs, late, pendingAtDeq, tickDone, error>>

SchedInit ==
  /\ queue = <<>>
  /\ postFlushCbs = <<>>
  /\ isFlushing = FALSE
  /\ isFlushPending = FALSE
  /\ seen = [x \in Jobs \cup AllCbs |-> 0]
  /\ pc = "idle"
  /\ cur = Null
  /\ cbs = <<>>
  /\ budget = 0
  /\ runs = [x \in Jobs \cup AllCbs |-> 0]
  /\ reqs = [x \in Jobs |-> 0]
  /\ late = {}
  /\ pendingAtDeq = {}
  /\ tickDone = FALSE
  /\ error = "none"
  /\ cbQueued = {}
  /\ superseded = {}
  /\ directRuns = [x \in RenderJobs |-> 0]
  /\ renderCalls = 0
  /\ compState = [x \in RenderJobs |-> "mounted"]

DiffIdle ==
  /\ c1 = <<>>
  /\ c2 = <<>>
  /\ ops = <<>>
  /\ diffDone = FALSE

(***************************************************************************)
(* Effect system: the cast                                                 *)
(***************************************************************************)
\* "e": effect(fn) without options; "r": an effect with a scheduler that queues
\* it (a component's render effect); "c": the runner of the computed cell
\* (lazy, computed: true, with the cell's scheduler)
Effects == {"e", "r", "c"}
NoEffect == "none"

\* effect.options.scheduler is set
hasScheduler(effect) == effect \in {"r", "c"}
\* effect.options.computed
isComputed(effect) == effect = "c"

\* two properties of one reactive object, and the 'value' key of the computed cell
DataProps == {"a", "b"}
Props == DataProps \cup {"cv"}

NoRun == [eff |-> NoEffect, tracked |-> FALSE, active |-> FALSE, reads |-> {}, treads |-> {}]

\* the computed cell before its first read.
\* reads: the keys the getter read, while tracking, in the invocation that is
\*   running or, if none is, in the last one;
\* outdated: one of them was written after the getter read it, "during" or
\*   "after" that invocation;
\* refreshed: that invocation followed a write of a key the one before had read;
\* undef: `value` is the undefined that runner() returned without invoking the
\*   getter, because the runner was stopped ("stopped") or was executing ("self");
\* got: what the read of computed.value in the last step returned.
NoCell == [reads |-> {}, outdated |-> "no", refreshed |-> FALSE, undef |-> "no",
           got |-> "none"]

ReactInit(f) ==
  /\ deps = [k \in Props |-> <<>>]
  /\ effDeps = [x \in Effects |-> {}]
  /\ active = [x \in Effects |-> TRUE]
  /\ effectStack = <<>>
  /\ activeEffect = NoEffect
  /\ shouldTrack = TRUE
  /\ trackStack = <<>>
  /\ dirty = TRUE
  /\ callStack = <<>>
  /\ fuel = f
  /\ lastRun = NoRun
  /\ notified = {}
  /\ getterRuns = 0
  /\ getterThrew = FALSE
  /\ cachedRead = FALSE
  /\ cell = NoCell

ReactIdle == ReactInit(0)

(***************************************************************************)
(* Wrappers: the cast                                                      *)
(***************************************************************************)
\* A value is a tuple: <<name>> for a raw object, and the target's tuple
\* followed by the handlers and the identity for new Proxy(target, handlers).
\* The raw objects: x = { v, plain: n, r: R, raw: d }, R = ref(m), and
\* n, m, d = { v }; markRaw(d) was called.
RawObjs == {"x", "n", "m", "d"}
rawValues == {<<"d">>}
NestedKeys == {"plain", "r", "raw"}
Absent == -1

\* new Proxy(target, handlers), the id-th proxy created
Proxy(target, handlers, id) == target \o <<handlers, id>>
IsRaw(v) == Len(v) = 1
Target(p) == SubSeq(p, 1, Len(p) - 2)
Handlers(p) == IF IsRaw(p) THEN "none" ELSE p[Len(p) - 1]

\* createRef(m): the closure's value = convert(m) = reactive(m)
RefValue == Proxy(<<"m">>, "mutable", 1)

WrapIdle ==
  /\ rawToReactive = {RefValue}
  /\ rawToReadonly = {}
  /\ proxyCount = 1
  /\ held = {<<"x">>}
  /\ val = [o \in RawObjs |-> 0]
  /\ ro = {}
  /\ roPlain = {}
  /\ roWrites = {}
  /\ writes = 0

(***************************************************************************)
(* Watchers: doWatch                                                       *)
(***************************************************************************)
\* values of the getter: nested itself (0 or 1), the reactive object, undefined
ObjRef == 2
Undefined == -1
\* the object oldValue holds until the runner has returned a value
INITIAL_WATCHER_VALUE == 3

Flushes == {"none", "pre", "post", "sync"}
\* the source argument: () => state.count.a.b, () => state.count, state.count
Sources == {"getterValue", "getterObject", "reactive"}

\* the scheduler chosen with 'pre' as the fallback
SchedulerPreDefault(flush) == IF flush \in {"sync", "post"} THEN flush ELSE "pre"

\* the scheduler doWatch chooses for the flush option
SchedulerOf(flush) == IF flush \in {"sync", "pre"} THEN flush ELSE "post"

\* the properties the getter reads while the runner is the active effect.
\* A reactive object passed as the source is called like a function:
\* callWithErrorHandling catches the TypeError and nothing is read.
GetterReads(o) ==
  CASE o.source = "getterValue" -> {"b"}
    [] o.source = "getterObject" -> IF o.hasCb /\ o.deep THEN {"b"} ELSE {}
    [] o.source = "reactive" -> {}

\* the value the getter returns
GetterValue(o, bval) ==
  CASE o.source = "getterValue" -> bval
    [] o.source = "getterObject" -> ObjRef
    [] o.source = "reactive" -> Undefined

\* the registered function is never called
InvokeCleanupNever(ws) == ws

\* if (cleanup) cleanup(), and options.onStop: the function registered by
\* onInvalidate is called
InvokeCleanup(ws) == IF ws.cleanup THEN [ws EXCEPT !.pendingFn = FALSE] ELSE ws

\* the stop handle: stop(runner), then remove(instance.effects, runner)
stopHandle(ws) ==
  LET s1 == IF ws.active
            THEN [InvokeCleanup([ws EXCEPT !.deps = {}]) EXCEPT
                    !.active = FALSE,
                    !.missed = @ \/ InvokeCleanup(ws).pendingFn]
            ELSE ws
  IN [s1 EXCEPT !.inEffects = FALSE, !.stopped = TRUE]

\* runner(): the lazy effect around the getter; reg: the effect function of
\* watchEffect calls onInvalidate. With o.selfStop the source calls the stop
\* handle before it reads, except in the run doWatch itself makes.
runner(ws, o, bval, initial, reg) ==
  IF ~ws.active THEN [ws |-> ws, value |-> Undefined]
  ELSE LET s0 == [ws EXCEPT !.deps = {}]
           s1 == IF o.hasCb THEN s0
                 ELSE [InvokeCleanup(s0) EXCEPT !.missed = @ \/ InvokeCleanup(s0).pendingFn]
           s2 == IF o.selfStop /\ ~initial THEN stopHandle(s1) ELSE s1
           s3 == [s2 EXCEPT !.deps = @ \cup GetterReads(o)]
           s4 == IF ~o.hasCb /\ reg
                 THEN [s3 EXCEPT !.cleanup = TRUE, !.pendingFn = TRUE] ELSE s3
       IN [ws |-> s4, value |-> GetterValue(o, bval)]

\* applyCb(); reg: the callback calls onInvalidate
applyCb(ws, o, bval, reg) ==
  LET r == runner(ws, o, bval, FALSE, FALSE)
      s1 == InvokeCleanup(r.ws)
      s2 == [s1 EXCEPT !.missed = @ \/ s1.pendingFn,
                       !.cbCalls = @ + 1,
                       !.oldValue = r.value]
  IN IF o.deep \/ r.value # r.ws.oldValue
     THEN IF reg THEN [s2 EXCEPT !.cleanup = TRUE, !.pendingFn = TRUE] ELSE s2
     ELSE r.ws

\* the job the runner's scheduler is given: applyCb, or the runner itself
WatchJob(ws, o, bval, reg) ==
  IF o.hasCb THEN applyCb(ws, o, bval, reg) ELSE runner(ws, o, bval, FALSE, reg).ws

RECURSIVE RunJobs(_, _, _, _, _)
RunJobs(ws, o, bval, n, reg) ==
  IF n = 0 THEN ws ELSE RunJobs(WatchJob(ws, o, bval, reg), o, bval, n - 1, reg)

\* doWatch up to its return, in the setup of a mounted component
WatchInit(o, reg) ==
  LET w0 == [active |-> TRUE, deps |-> {}, oldValue |-> INITIAL_WATCHER_VALUE,
             cleanup |-> FALSE,
             inEffects |-> TRUE, cbCalls |-> 0, pendingFn |-> FALSE, missed |-> FALSE,
             stopped |-> FALSE]
      r == runner(w0, o, 0, TRUE, reg)
  IN /\ opts = o
     /\ nested = 0
     /\ watcher = IF o.hasCb THEN [r.ws EXCEPT !.oldValue = r.value] ELSE r.ws
     /\ tickWrites = 0
     /\ wTickDone = TRUE
     /\ fired = FALSE
     /\ changed = FALSE
     /\ prevOld = IF o.hasCb THEN r.value ELSE Undefined

WatchIdle ==
  WatchInit([flush |-> "none", hasCb |-> TRUE, deep |-> FALSE, source |-> "getterValue",
             selfStop |-> FALSE], FALSE)

(***************************************************************************)
(* The subsystems that follow: their state while they are not in use       *)
(***************************************************************************)
\* seqOut before getSequence was called
NotCalled == <<-1>>

SeqIdle ==
  /\ seqIn = <<>>
  /\ seqOut = NotCalled

NoVNode == [vnode |-> [type |-> "none", transition |-> "none", children |-> <<>>],
            el |-> <<"none", 0>>, anchor |-> <<"none", 0>>]

MountIdle ==
  /\ hostChildren = <<>>
  /\ hostBefore = <<>>
  /\ containerVNode = NoVNode
  /\ pendingLeave = {}
  /\ mountPhase = "fresh"
  /\ mountedRoot = NoVNode.vnode

PropsIdle ==
  /\ propsOptions = <<>>
  /\ rawProps = <<>>
  /\ instanceProps = <<>>
  /\ instanceAttrs = <<>>

ProvideIdle ==
  /\ providesObjs = <<>>
  /\ instProvides = <<>>
  /\ currentInstance = "none"
  /\ setupDone = {}
  /\ provideLog = <<>>
  /\ provideCount = 0
  /\ injected = <<>>

NotParsed == [type |-> "none", tag |-> "", children |-> <<>>]

ParseIdle ==
  /\ templateSrc = <<>>
  /\ keepComments = FALSE
  /\ parsedAst = NotParsed

NoSet == [newVal |-> "none", stored |-> "none", before |-> "none",
          triggered |-> FALSE, ran |-> {}]

RefIdle ==
  /\ refShallow = FALSE
  /\ refRaw = "none"
  /\ refVal = "none"
  /\ refDep = {}
  /\ refSets = 0
  /\ refLast = NoSet

NoWrite == [type |-> "none", keysChanged |-> FALSE, enumerators |-> {}, ran |-> {},
            threw |-> FALSE]

IterIdle ==
  /\ itIsArray = FALSE
  /\ itTarget = <<>>
  /\ itLength = 0
  /\ itDeps = <<>>
  /\ itOps = 0
  /\ itLast = NoWrite

DefaultsIdle ==
  /\ dfOptions = <<>>
  /\ dfRawProps = <<>>
  /\ dfPrevProps = <<>>
  /\ dfUpdating = FALSE
  /\ dfActiveEffect = "none"
  /\ dfShouldTrack = TRUE
  /\ dfDeps = <<>>
  /\ dfInvoked = {}
  /\ dfDone = FALSE

NoUpdate == [inst |-> "none", el |-> "none", changed |-> FALSE]

HocIdle ==
  /\ hcWraps = <<>>
  /\ hcVNodeEl = <<>>
  /\ hcUpdates = 0
  /\ hcLast = NoUpdate

\* every later subsystem except `x` is idle
ExtIdleExcept(x) ==
  /\ (x = "seq" \/ SeqIdle)
  /\ (x = "mount" \/ MountIdle)
  /\ (x = "props" \/ PropsIdle)
  /\ (x = "provide" \/ ProvideIdle)
  /\ (x = "parse" \/ ParseIdle)
  /\ (x = "ref" \/ RefIdle)
  /\ (x = "iterate" \/ IterIdle)
  /\ (x = "defaults" \/ DefaultsIdle)
  /\ (x = "hoc" \/ HocIdle)

ExtIdle == ExtIdleExcept("none")

\* the scheduler, the diff, the effect system, the wrappers and the watcher
\* are idle (production build)
CoreIdle ==
  /\ SchedInit
  /\ dev = FALSE
  /\ selfTrig = {}
  /\ DiffIdle
  /\ ReactIdle
  /\ WrapIdle
  /\ WatchIdle

(***************************************************************************)
(* Specification of the scheduler under arbitrary jobs                     *)
(***************************************************************************)
InitSched ==
  /\ SchedInit
  /\ DiffIdle
  /\ ReactIdle
  /\ WrapIdle
  /\ WatchIdle
  /\ ExtIdle
  /\ dev \in BOOLEAN
  /\ selfTrig = {}

NextSched ==
  \/ \E j \in Jobs : QueueJobExt(j)
  \/ \E cb \in PostCbs : QueuePostExt(cb)
  \/ FlushStart
  \/ RunJob
  \/ SkipNull
  \/ \E child \in RenderJobs : ParentUpdateChild(child)
  \/ \E j \in Jobs : BodyQueueJob(j)
  \/ \E cb \in PostCbs : BodyQueuePost(cb)
  \/ JobEnd
  \/ PostBegin
  \/ RunCb
  \/ CbEnd
  \/ FlushEnd
  \/ FlushAgain

SpecSched == InitSched /\ [][NextSched]_vars

(***************************************************************************)
(* Specification of the scheduler with render() called by outside code:    *)
(* render effects, post-flush callbacks, production build                  *)
(***************************************************************************)
InitRender ==
  /\ SchedInit
  /\ DiffIdle
  /\ ReactIdle
  /\ WrapIdle
  /\ WatchIdle
  /\ ExtIdle
  /\ dev = FALSE
  /\ selfTrig = {}

NextRender ==
  \/ \E j \in RenderJobs : QueueJobExt(j)
  \/ \E cb \in PostCbs : QueuePostExt(cb)
  \/ RenderCall
  \/ RenderEnd
  \/ FlushStart
  \/ RunJob
  \/ \E j \in RenderJobs : BodyQueueJob(j)
  \/ \E cb \in PostCbs : BodyQueuePost(cb)
  \/ JobEnd
  \/ PostBegin
  \/ RunCb
  \/ CbEnd
  \/ FlushEnd
  \/ FlushAgain

SpecRender == InitRender /\ [][NextRender]_vars

(***************************************************************************)
(* Specification of the scheduler with components that are unmounted,      *)
(* updated by render() calls of outside code, and whose jobs throw         *)
(* (production build)                                                      *)
(***************************************************************************)
InitLife ==
  /\ SchedInit
  /\ DiffIdle
  /\ ReactIdle
  /\ WrapIdle
  /\ WatchIdle
  /\ ExtIdle
  /\ dev = FALSE
  /\ selfTrig = {}

NextLife ==
  \/ \E j \in RenderJobs : QueueJobExt(j)
  \/ QueuePostExt("P")
  \/ \E withChild \in BOOLEAN : RenderUpdate(withChild)
  \/ FlushStart
  \/ RunJob
  \/ SkipNull
  \/ \E child \in RenderJobs : ParentUpdateChild(child)
  \/ \E child \in RenderJobs : ParentUnmountChild(child)
  \/ \E j \in RenderJobs : BodyQueueJob(j)
  \/ BodyQueuePost("P")
  \/ JobThrow
  \/ JobEnd
  \/ PostBegin
  \/ RunCb
  \/ CbThrow
  \/ CbEnd
  \/ FlushEnd
  \/ FlushAgain

SpecLife == InitLife /\ [][NextLife]_vars

(***************************************************************************)
(* Specification of the scheduler with one self-triggering watcher         *)
(* callback (development build)                                            *)
(***************************************************************************)
InitCycle ==
  /\ SchedInit
  /\ DiffIdle
  /\ ReactIdle
  /\ WrapIdle
  /\ WatchIdle
  /\ ExtIdle
  /\ dev = TRUE
  /\ \E x \in PreJobs \cup PostCbs : selfTrig = {x}

\* the watched source is written outside a flush: the watcher's scheduler
\* enqueues its callback
QueueSelfExt ==
  /\ \E j \in selfTrig \cap Jobs : QueueJobExt(j)

QueueSelfPostExt ==
  /\ \E cb \in selfTrig \cap PostCbs : QueuePostExt(cb)

NextCycle ==
  \/ QueueSelfExt
  \/ QueueSelfPostExt
  \/ \E j \in RenderJobs : QueueJobExt(j)
  \/ FlushStart
  \/ RunJob
  \/ JobRecursionError
  \/ JobEnd
  \/ JobSelfTrigger
  \/ PostBegin
  \/ RunCb
  \/ CbRecursionError
  \/ CbSelfTrigger
  \/ FlushAgain
  \/ FlushEnd

SpecCycle == InitCycle /\ [][NextCycle]_vars


(***************************************************************************)
(* Claims about the scheduler                                              *)
(***************************************************************************)
\* executions of a render effect in the tick: as a job shifted from the queue
\* and as the direct call of a parent's update
Executions(r) == runs[r] + directRuns[r]

\* C2 (as stated): when the flush of a tick has returned, every render effect
\* that was enqueued in the tick has executed exactly once.
C2_ExactlyOncePerTick ==
  tickDone => \A r \in RenderJobs : reqs[r] > 0 => Executions(r) = 1

\* C2 (amended): a render effect for which no queueJob call arrives after it
\* was dequeued, and which no update of its parent calls directly, runs at
\* most once in the tick, and exactly once by the time the flush returns,
\* however many queueJob calls were made for it.
C2_OncePerQueuedJob ==
  \A r \in RenderJobs :
    (r \notin late /\ directRuns[r] = 0) =>
      /\ Executions(r) <= 1
      /\ (tickDone /\ reqs[r] > 0) => Executions(r) = 1

\* C2 witness: a render effect enqueued twice before it ran has run once
C2_Witness ==
  tickDone /\ reqs["R1"] = 2 /\ "R1" \notin late /\ Executions("R1") = 1

\* C3: when the render effect of a component is dequeued, the render effect
\* of no ancestor is waiting in the queue without having run in this flush.
C3_ParentBeforeChild ==
  \A a \in RenderJobs : \A b \in RenderJobs :
    IsAncestor(a, b) =>
      ~(pc = "job" /\ cur = b /\ a \in pendingAtDeq /\ runs[a] = 0)

\* C10: when a render effect is dequeued, no callback of a flush: 'pre'
\* watcher is still waiting in the queue.
C10_PreWatcherBeforeRender ==
  \A r \in RenderJobs : \A w \in PreJobs :
    ~(pc = "job" /\ cur = r /\ w \in pendingAtDeq)

\* C11 (as stated): a post-flush callback is called only when no render
\* effect queued in the tick is still waiting in the queue.
C11_PostAfterAllRenders ==
  pc \in {"cb", "rcb"} => pendingAtDeq \cap RenderJobs = {}

\* C11 (amended): inside flushJobs a post-flush callback is called only when
\* every render effect still waiting in the queue was enqueued by a callback
\* of the same flushPostFlushCbs call; the flushPostFlushCbs call of render()
\* is not covered.
C11_PostAfterQueuedRenders ==
  pc = "cb" => pendingAtDeq \cap RenderJobs \subseteq cbQueued

\* C11 witness: a post-flush callback runs inside flushJobs after both render
\* effects ran, while a render effect that an earlier callback of the round
\* enqueued is waiting
C11_Witness ==
  /\ pc = "cb"
  /\ runs["R1"] = 1 /\ runs["R2"] = 1
  /\ pendingAtDeq \cap RenderJobs # {}

\* C12: a render effect whose queued job was invalidated by an update of its
\* parent, and that was not enqueued again, is not in the queue, was rendered
\* by the parent's update, and, if it was requested once by the parent and not
\* after a run of its own, has executed exactly once when the flush returns.
C12_ChildRendersOnce ==
  \A j \in superseded :
    /\ j \notin Range(queue)
    /\ directRuns[j] >= 1
    /\ (j \notin late /\ directRuns[j] = 1) => Executions(j) = 1

\* C12 witness: the flush returned; the child's job was queued when the parent
\* updated it, and the child rendered once
C12_Witness ==
  tickDone /\ "R2" \in superseded /\ reqs["R2"] > 0 /\ Executions("R2") = 1

\* C13: in every state and for every job, queueJob(j); queueJob(j) leaves the
\* state that queueJob(j) leaves, and schedules as many flushes.
C13_QueueJobIdempotent ==
  \A j \in Jobs :
    QueueJobOn(QueueJobOn(SchedState, j), j) = QueueJobOn(SchedState, j)

\* C13 witness: a job requested twice before it ran is waiting once
C13_Witness ==
  /\ reqs["R2"] = 2 /\ Executions("R2") = 0
  /\ Len(SelectSeq(queue, LAMBDA x : x = "R2")) = 1
  /\ isFlushPending

\* C27: whenever flushJobs is about to start (the flush is pending and no
\* flush is running), the queue holds no null entry.
C27_NoNullAtFlushStart ==
  (pc = "idle" /\ isFlushPending) => Null \notin Range(queue)

\* C28: whenever no flushJobs call is executing, isFlushing is false.
C28_NotFlushingOutsideFlush ==
  pc \in {"idle", "rcbs", "rcb"} => ~isFlushing

\* C29: when the outermost flushJobs call has returned normally, the queue and
\* postFlushCbs are empty and every job enqueued in the tick, before or during
\* the flush, has been executed.
C29_QueuesEmptyAfterFlush ==
  tickDone =>
    /\ queue = <<>>
    /\ postFlushCbs = <<>>
    /\ \A j \in Jobs :
         reqs[j] > 0 => runs[j] + (IF HasId(j) THEN directRuns[j] ELSE 0) >= 1

\* C29 witness: the flush returned after it had run a render effect again
\* that a job enqueued during the flush, and a callback queued during the flush
C29_Witness ==
  tickDone /\ "R1" \in late /\ runs["R1"] = 2 /\ runs["P"] >= 1

\* C30: no call of the queued job of a component made after the component was
\* unmounted has rendered it.
C30_UnmountedNotRendered ==
  \A j \in RenderJobs : compState[j] # "rendered"

\* C30 witness: the child was unmounted by its parent's update while its job
\* was queued, and the job has since been dequeued and skipped
C30_Witness ==
  compState["R2"] = "skipped" /\ runs["R1"] >= 1 /\ runs["R2"] >= 1

\* C7 (as stated): a self-triggering job runs at most RECURSION_LIMIT times
\* in a tick.
C7_AtMostLimitRuns ==
  \A x \in selfTrig : runs[x] <= RECURSION_LIMIT

\* C7 (amended): in a development build a self-triggering job runs at most
\* RECURSION_LIMIT + 1 times in the flush of a tick, and the recursion error is raised
\* exactly when it is about to run once more.
C7_AtMostLimitPlusOneRuns ==
  \A x \in selfTrig :
    /\ runs[x] <= RECURSION_LIMIT + 1
    /\ error = "recursion" => runs[x] = RECURSION_LIMIT + 1
    /\ (runs[x] = RECURSION_LIMIT + 1 /\ pc = "idle") => error = "recursion"

\* C7 witness: the error was raised after RECURSION_LIMIT + 1 runs
C7_Witness ==
  \E x \in selfTrig : error = "recursion" /\ runs[x] = RECURSION_LIMIT + 1

(***************************************************************************)
(* Keyed children diff                                                     *)
(***************************************************************************)
\* JavaScript arrays are indexed from 0; the sequences that hold them from 1
At(a, i) == a[i + 1]
SetAt(a, i, v) == [a EXCEPT ![i + 1] = v]

Keys == 1..MaxKeys
VNodeTypes == {"div", "span"}

\* same `type` and same `key`
isSameVNodeType(n1, n2) == n1.type = n2.type /\ n1.key = n2.key

\* one host-level operation; old / new are 0-based indices into c1 / c2, -1 if
\* absent. anchor: <<"parent", 0>> (parentAnchor), <<"el", j>> (c2[j].el),
\* <<"next", i>> (getNextHostNode(c1[i])), <<"none", 0>>
HostOp(op, old, new, anchor) == [op |-> op, old |-> old, new |-> new, anchor |-> anchor]

\* the mutated patch: an old node of another type is kept and patched in place
PatchNoTypeCheck(a, i, b, j, anchor) == <<HostOp("patch", i, j, <<"none", 0>>)>>

\* patch(n1, n2, container, anchor) for n1 = a[i], n2 = b[j]: an old node of
\* another type is unmounted and the new node mounted at its place
patch(a, i, b, j, anchor) ==
  IF isSameVNodeType(At(a, i), At(b, j))
  THEN <<HostOp("patch", i, j, <<"none", 0>>)>>
  ELSE <<HostOp("unmount", i, -1, <<"none", 0>>),
         HostOp("mount", -1, j, <<"next", i>>)>>

\* patch(null, n2, container, anchor)
mount(j, anchor) == <<HostOp("mount", -1, j, anchor)>>

unmount(i) == <<HostOp("unmount", i, -1, <<"none", 0>>)>>

\* the mutated move: the host node stays where it is
MoveNothing(j, anchor) == <<>>

\* move(vnode, container, anchor, MoveType.REORDER) for vnode = c2[j]
move(j, anchor) == <<HostOp("move", -1, j, anchor)>>

\* the binary search of getSequence
RECURSIVE GsSearch(_, _, _, _, _)
GsSearch(arr, result, u, v, arrI) ==
  IF u < v
  THEN LET c == (u + v) \div 2 IN
       IF At(arr, At(result, c)) < arrI
       THEN GsSearch(arr, result, c + 1, v, arrI)
       ELSE GsSearch(arr, result, u, c, arrI)
  ELSE u

\* the main loop of getSequence from index i on: <<p, result>>
RECURSIVE GsScan(_, _, _, _)
GsScan(arr, i, p, result) ==
  IF i >= Len(arr) THEN <<p, result>>
  ELSE LET arrI == At(arr, i) IN
       IF arrI = 0 THEN GsScan(arr, i + 1, p, result)
       ELSE LET j == At(result, Len(result) - 1) IN
            IF At(arr, j) < arrI
            THEN GsScan(arr, i + 1, SetAt(p, i, j), Append(result, i))
            ELSE LET u == GsSearch(arr, result, 0, Len(result) - 1, arrI) IN
                 IF arrI < At(arr, At(result, u))
                 THEN GsScan(arr, i + 1,
                             IF u > 0 THEN SetAt(p, i, At(result, u - 1)) ELSE p,
                             SetAt(result, u, i))
                 ELSE GsScan(arr, i + 1, p, result)

\* while (u-- > 0) { result[u] = v; v = p[v] }
RECURSIVE GsBack(_, _, _, _)
GsBack(p, result, u, v) ==
  IF u > 0
  THEN LET r == SetAt(result, u - 1, v) IN
       IF u - 1 > 0 THEN GsBack(p, r, u - 1, At(p, v)) ELSE r
  ELSE result

\* the mutated getSequence: the last index alone
GetSequenceLastOnly(arr) == <<Len(arr) - 1>>

\* getSequence(arr): indices of a longest increasing subsequence
getSequence(arr) ==
  LET s == GsScan(arr, 0, arr, <<0>>) IN
  GsBack(s[1], s[2], Len(s[2]), At(s[2], Len(s[2]) - 1))

\* 1. sync from start: the first index that is not synced
RECURSIVE SyncStart(_, _, _)
SyncStart(a, b, i) ==
  IF i <= Len(a) - 1 /\ i <= Len(b) - 1 /\ isSameVNodeType(At(a, i), At(b, i))
  THEN SyncStart(a, b, i + 1)
  ELSE i

\* 2. sync from end: <<e1, e2>> after the loop
RECURSIVE SyncEnd(_, _, _, _, _)
SyncEnd(a, b, i, e1, e2) ==
  IF i <= e1 /\ i <= e2 /\ isSameVNodeType(At(a, e1), At(b, e2))
  THEN SyncEnd(a, b, i, e1 - 1, e2 - 1)
  ELSE <<e1, e2>>

\* the concatenation of f(lo), f(lo + 1), ..., f(hi)
RECURSIVE Concat(_, _, _)
Concat(f(_), lo, hi) == IF lo > hi THEN <<>> ELSE f(lo) \o Concat(f, lo + 1, hi)

\* 5.1 keyToNewIndexMap.get(key): the last index of b[s2..e2] with that key, -1 if none
KeyToNewIndex(b, s2, e2, key) ==
  LET js == {j \in s2..e2 : At(b, j).key = key} IN
  IF js = {} THEN -1 ELSE CHOOSE j \in js : \A k \in js : k <= j

\* 5.2 the loop over the old children a[i..e1]
RECURSIVE PatchOld(_, _, _, _, _, _, _)
PatchOld(a, b, i, e1, s2, e2, st) ==
  IF i > e1 THEN st
  ELSE IF st.patched >= e2 - s2 + 1
       THEN PatchOld(a, b, i + 1, e1, s2, e2, [st EXCEPT !.ops = @ \o unmount(i)])
       ELSE LET newIndex == KeyToNewIndex(b, s2, e2, At(a, i).key) IN
            IF newIndex = -1
            THEN PatchOld(a, b, i + 1, e1, s2, e2, [st EXCEPT !.ops = @ \o unmount(i)])
            ELSE PatchOld(a, b, i + 1, e1, s2, e2,
                   [patched |-> st.patched + 1,
                    map |-> SetAt(st.map, newIndex - s2, i + 1),
                    maxNewIndexSoFar |->
                      IF newIndex >= st.maxNewIndexSoFar THEN newIndex
                      ELSE st.maxNewIndexSoFar,
                    moved |-> st.moved \/ newIndex < st.maxNewIndexSoFar,
                    ops |-> st.ops \o patch(a, i, b, newIndex, <<"none", 0>>)])

\* 5.3 the backwards loop over the new children, i = toBePatched - 1 .. 0
RECURSIVE MoveAndMount(_, _, _, _, _, _, _)
MoveAndMount(b, s2, map, moved, seq, i, j) ==
  IF i < 0 THEN <<>>
  ELSE LET nextIndex == s2 + i
           anchor == IF nextIndex + 1 < Len(b) THEN <<"el", nextIndex + 1>>
                     ELSE <<"parent", 0>>
       IN IF At(map, i) = 0
          THEN mount(nextIndex, anchor) \o MoveAndMount(b, s2, map, moved, seq, i - 1, j)
          ELSE IF moved
               THEN IF j < 0 \/ i # At(seq, j)
                    THEN move(nextIndex, anchor)
                           \o MoveAndMount(b, s2, map, moved, seq, i - 1, j)
                    ELSE MoveAndMount(b, s2, map, moved, seq, i - 1, j - 1)
               ELSE MoveAndMount(b, s2, map, moved, seq, i - 1, j)

\* 5. unknown sequence
UnknownSequence(a, b, s, e1, e2) ==
  LET toBePatched == e2 - s + 1
      st == PatchOld(a, b, s, e1, s, e2,
              [patched |-> 0, map |-> [k \in 1..toBePatched |-> 0],
               maxNewIndexSoFar |-> 0, moved |-> FALSE, ops |-> <<>>])
      seq == IF st.moved THEN getSequence(st.map) ELSE <<>>
  IN st.ops \o MoveAndMount(b, s, st.map, st.moved, seq, toBePatched - 1, Len(seq) - 1)

\* patchKeyedChildren(c1, c2, ...): the host operations it performs, in order
patchKeyedChildren(a, b) ==
  LET l2 == Len(b)
      i == SyncStart(a, b, 0)
      e == SyncEnd(a, b, i, Len(a) - 1, l2 - 1)
      e1 == e[1]
      e2 == e[2]
      PatchHead(k) == patch(a, k, b, k, <<"parent", 0>>)
      PatchTail(k) == patch(a, Len(a) - 1 - k, b, l2 - 1 - k, <<"parent", 0>>)
      MountNew(k) == mount(k, IF e2 + 1 < l2 THEN <<"el", e2 + 1>> ELSE <<"parent", 0>>)
  IN Concat(PatchHead, 0, i - 1)
       \o Concat(PatchTail, 0, Len(a) - 2 - e1)
       \o (IF i > e1
           THEN (IF i <= e2 THEN Concat(MountNew, i, e2) ELSE <<>>)
           ELSE IF i > e2
                THEN Concat(unmount, i, e1)
                ELSE UnknownSequence(a, b, i, e1, e2))

\* the lists of vnodes with pairwise distinct keys drawn from ks, types from ts
RECURSIVE KeyedLists(_, _)
KeyedLists(ks, ts) ==
  {<<>>} \cup
  UNION {{<<[key |-> k, type |-> t]>> \o rest : rest \in KeyedLists(ks \ {k}, ts)} :
          <<k, t>> \in ks \X ts}

\* The old children are all of one type: isSameVNodeType compares an old child
\* with a new one only, so what matters is whether the new type differs.
InitDiff ==
  /\ SchedInit
  /\ dev = TRUE
  /\ selfTrig = {}
  /\ c1 \in KeyedLists(Keys, {"div"})
  /\ c2 \in KeyedLists(Keys, VNodeTypes)
  /\ ops = <<>>
  /\ diffDone = FALSE
  /\ ReactIdle
  /\ WrapIdle
  /\ WatchIdle
  /\ ExtIdle

\* the renderer calls patchKeyedChildren(c1, c2, container, ...)
PatchKeyed ==
  /\ ~diffDone
  /\ ops' = patchKeyedChildren(c1, c2)
  /\ diffDone' = TRUE
  /\ UNCHANGED <<c1, c2>>
  /\ UNCHANGED nonDiffVars

NextDiff == PatchKeyed

SpecDiff == InitDiff /\ [][NextDiff]_vars

(***************************************************************************)
(* Claims about the keyed diff                                             *)
(***************************************************************************)
CountOps(kind) == Cardinality({n \in 1..Len(ops) : ops[n].op = kind})

KeysOf(list) == {list[n].key : n \in 1..Len(list)}

\* the position in c1 of the child with that key
OldPos(key) == CHOOSE n \in 1..Len(c1) : c1[n].key = key

\* the positions of c2 whose key also occurs in c1
Kept == {n \in 1..Len(c2) : c2[n].key \in KeysOf(c1)}

\* length of the longest strictly increasing subsequence of the old positions
\* of the kept children of c2, taken in c2's order
LisLen ==
  LET Increasing(S) == \A m \in S : \A n \in S : m < n => OldPos(c2[m].key) < OldPos(c2[n].key)
      sizes == {Cardinality(S) : S \in {T \in SUBSET Kept : Increasing(T)}}
  IN CHOOSE n \in sizes : \A m \in sizes : m <= n

\* children of x without a child of the same key and type in y
Unmatched(x, y) ==
  {n \in 1..Len(x) : ~\E m \in 1..Len(y) : isSameVNodeType(x[n], y[m])}

\* C4 (as stated): the number of moves is |c2| minus the length of the longest
\* increasing subsequence of the old positions of c2's children.
C4_MovesAreLenMinusLis ==
  diffDone => CountOps("move") = Len(c2) - LisLen

\* C4 (amended): the number of moves is the number of children of c2 whose key
\* also occurs in c1, minus the length of the longest increasing subsequence
\* of their old positions.
C4_MovesAreKeptMinusLis ==
  diffDone => CountOps("move") = Cardinality(Kept) - LisLen

\* C4 witness: a diff of two kept children in reversed order and one child
\* with a new key: one move, one mount
C4_Witness ==
  /\ diffDone
  /\ CountOps("move") = 1
  /\ Cardinality(Kept) = 2
  /\ LisLen = 1
  /\ KeysOf(c2) \ KeysOf(c1) # {}

\* C5 (as stated): mounts = keys of c2 not in c1, unmounts = keys of c1 not in c2.
C5_MountsAreNewKeys ==
  diffDone =>
    /\ CountOps("mount") = Cardinality(KeysOf(c2) \ KeysOf(c1))
    /\ CountOps("unmount") = Cardinality(KeysOf(c1) \ KeysOf(c2))

\* C5 (amended): mounts = children of c2 without a child of the same key and
\* type in c1; unmounts = children of c1 without a child of the same key and
\* type in c2.
C5_MountsAreUnmatched ==
  diffDone =>
    /\ CountOps("mount") = Cardinality(Unmatched(c2, c1))
    /\ CountOps("unmount") = Cardinality(Unmatched(c1, c2))

\* C5 witness: a diff with a new key, a dropped key and a key whose type changed
C5_Witness ==
  /\ diffDone
  /\ KeysOf(c2) \ KeysOf(c1) # {}
  /\ KeysOf(c1) \ KeysOf(c2) # {}
  /\ \E n \in Kept : c2[n].type # c1[OldPos(c2[n].key)].type
  /\ CountOps("mount") = 2

\* ---- the host nodes of the container after the operations
NoNode == <<"none", 0>>
\* the node that follows the children (the end anchor of a fragment)
EndNode == <<"end", 0>>

\* insert(node, parent, anchor): before anchor, or appended without one; a
\* node that is already a child is moved
hostInsert(c, node, anchor) ==
  LET rest == SelectSeq(c, LAMBDA x : x # node)
      at == {k \in 1..Len(rest) : rest[k] = anchor}
  IN IF at = {} THEN Append(rest, node)
     ELSE LET k == CHOOSE x \in at : TRUE
          IN SubSeq(rest, 1, k - 1) \o <<node>> \o SubSeq(rest, k, Len(rest))

\* remove(node)
hostRemove(c, node) == SelectSeq(c, LAMBDA x : x # node)

\* nextSibling(node)
hostNextSibling(c, node) ==
  LET at == {k \in 1..(Len(c) - 1) : c[k] = node}
  IN IF at = {} THEN NoNode ELSE c[(CHOOSE x \in at : TRUE) + 1]

\* the host node an anchor of an operation stands for
AnchorNode(st, anchor) ==
  CASE anchor[1] = "parent" -> EndNode
    [] anchor[1] = "el" -> At(st.el, anchor[2])
    [] anchor[1] = "next" -> At(st.next, anchor[2])
    [] OTHER -> NoNode

\* one host operation applied to the container; el: the host node of each new
\* child, next: getNextHostNode of each old child when it was unmounted
ApplyOp(st, o) ==
  CASE o.op = "patch" -> [st EXCEPT !.el = SetAt(@, o.new, <<"old", o.old>>)]
    [] o.op = "unmount" ->
         [st EXCEPT !.next = SetAt(@, o.old, hostNextSibling(st.container, <<"old", o.old>>)),
                    !.container = hostRemove(@, <<"old", o.old>>)]
    [] o.op = "mount" ->
         [st EXCEPT !.el = SetAt(@, o.new, <<"new", o.new>>),
                    !.container = hostInsert(@, <<"new", o.new>>, AnchorNode(st, o.anchor))]
    [] o.op = "move" ->
         [st EXCEPT !.container = hostInsert(@, At(st.el, o.new), AnchorNode(st, o.anchor))]

RECURSIVE ApplyOps(_, _)
ApplyOps(st, os) == IF os = <<>> THEN st ELSE ApplyOps(ApplyOp(st, Head(os)), Tail(os))

\* the container holding the host nodes of c1, and what the operations of
\* patchKeyedChildren make of it
HostAfter ==
  ApplyOps([container |-> [n \in 1..Len(c1) |-> <<"old", n - 1>>] \o <<EndNode>>,
            el |-> [n \in 1..Len(c2) |-> NoNode],
            next |-> [n \in 1..Len(c1) |-> NoNode]], ops)

\* C26: after patchKeyedChildren the container holds the host nodes of the
\* children of c2 in the order of c2 (followed by the end anchor), and a child
\* of c2 whose key occurs in c1 with the same type has the host node of that
\* old child.
C26_HostOrderAndReuse ==
  diffDone =>
    /\ HostAfter.container = HostAfter.el \o <<EndNode>>
    /\ \A n \in 1..Len(c2) : HostAfter.el[n] # NoNode
    /\ \A n \in Kept :
         c2[n].type = c1[OldPos(c2[n].key)].type
           => HostAfter.el[n] = <<"old", OldPos(c2[n].key) - 1>>

\* C26 witness: a diff that moved a kept child, mounted a new one, unmounted
\* an old one and replaced one whose type changed
C26_Witness ==
  /\ diffDone
  /\ CountOps("move") >= 1
  /\ CountOps("mount") >= 1
  /\ CountOps("unmount") >= 1
  /\ \E n \in Kept : HostAfter.el[n] = <<"old", OldPos(c2[n].key) - 1>>

(***************************************************************************)
(* Effect system: effect / track / trigger / stop                          *)
(***************************************************************************)
Last(s) == s[Len(s)]
Front(s) == SubSeq(s, 1, Len(s) - 1)
Without(s, x) == SelectSeq(s, LAMBDA y : y # x)

\* a frame of the call stack. t = "run": an invocation of effect eff's function,
\* inside the try block of reactiveEffect (tracked) or directly because the
\* effect is inactive; reads / treads: the keys it has read / read while
\* shouldTrack was true. t = "trig": a trigger call on key; pending: the
\* effects still to run, log: those already run, by: the effect whose
\* function performed the write, paused: shouldTrack was false at the call.
\* t = "get": the computed cell's `get value` waiting for its runner.
\* saved: effectStack, activeEffect and shouldTrack at the moment a tracked
\* invocation was entered (observation only).
NoSaved == [es |-> <<>>, ae |-> "none", st |-> TRUE, ts |-> 0]

Frame(t, eff, key, tracked, pending, by, byActive, paused) ==
  [t |-> t, eff |-> eff, key |-> key, tracked |-> tracked, reads |-> {},
   treads |-> {}, pending |-> pending, log |-> <<>>, by |-> by,
   byActive |-> byActive, paused |-> paused, saved |-> NoSaved]

RunFrame(effect, tracked) ==
  Frame("run", effect, "none", tracked, <<>>, NoEffect, FALSE, FALSE)
GetFrame == Frame("get", "c", "cv", FALSE, <<>>, NoEffect, FALSE, FALSE)

\* the innermost effect function that is executing
RunIdx(cs) == {i \in 1..Len(cs) : cs[i].t = "run"}
TopRun(cs) == IF RunIdx(cs) = {} THEN 0 ELSE CHOOSE i \in RunIdx(cs) : \A j \in RunIdx(cs) : j <= i
Executing(cs) == IF TopRun(cs) = 0 THEN NoEffect ELSE cs[TopRun(cs)].eff

\* the innermost invocation that went through reactiveEffect's try block
TrackedIdx(cs) == {i \in RunIdx(cs) : cs[i].tracked}
TopTracked(cs) ==
  IF TrackedIdx(cs) = {} THEN 0
  ELSE CHOOSE i \in TrackedIdx(cs) : \A j \in TrackedIdx(cs) : j <= i

\* a read of key is a read by the executing function and by the functions that
\* called it, up to the innermost invocation that has its own activeEffect
NoteRead(cs, key, tracking) ==
  [i \in 1..Len(cs) |->
     IF cs[i].t = "run" /\ i >= TopTracked(cs)
     THEN [cs[i] EXCEPT !.reads = @ \cup {key},
                        !.treads = IF tracking THEN @ \cup {key} ELSE @]
     ELSE cs[i]]

\* the mutated cleanup: the dep Sets keep the effect
CleanupKeep(d, ed, effect) == d

\* cleanup(effect): the dep Sets after deps[i].delete(effect) for each of effect.deps
cleanup(d, ed, effect) ==
  [k \in Props |-> IF k \in ed[effect] THEN Without(d[k], effect) ELSE d[k]]

\* track(target, type, key): the dep Sets afterwards, for the given activeEffect
\* and shouldTrack
trackDeps(d, ae, st, key) ==
  IF ~st \/ ae = NoEffect THEN d
  ELSE IF \E n \in 1..Len(d[key]) : d[key][n] = ae THEN d
       ELSE [d EXCEPT ![key] = Append(@, ae)]

\* track: activeEffect.deps afterwards
trackEffDeps(ed, ae, st, key) ==
  IF ~st \/ ae = NoEffect THEN ed ELSE [ed EXCEPT ![ae] = @ \cup {key}]

\* the mutated resetTracking: trackStack is popped, shouldTrack is left as it is
ResetTrackingKeep(st, ts) ==
  IF ts = <<>> THEN <<TRUE, <<>>>> ELSE <<st, Front(ts)>>

\* resetTracking(): <<shouldTrack, trackStack>> afterwards
resetTracking(st, ts) ==
  IF ts = <<>> THEN <<TRUE, <<>>>> ELSE <<Last(ts), Front(ts)>>

\* n calls of resetTracking in a row
RECURSIVE ResetTimes(_, _, _)
ResetTimes(n, st, ts) ==
  IF n = 0 THEN <<st, ts>>
  ELSE ResetTimes(n - 1, resetTracking(st, ts)[1], resetTracking(st, ts)[2])

\* the mutated self-check of trigger's add: every effect of the dep is added
AddAlways(effect, ae, st) == TRUE

\* trigger's add: if (effect !== activeEffect || !shouldTrack)
add(effect, ae, st) == effect # ae \/ ~st

\* the mutated run order: plain effects first
RunOrderEffectsFirst(computedRunners, effects) == effects \o computedRunners

\* computedRunners.forEach(run); effects.forEach(run)
RunOrder(computedRunners, effects) == computedRunners \o effects

\* trigger(target, type, key): the effects it will run, in order
ToRun(key) ==
  LET added == SelectSeq(deps[key], LAMBDA x : add(x, activeEffect, shouldTrack))
  IN RunOrder(SelectSeq(added, isComputed), SelectSeq(added, LAMBDA x : ~isComputed(x)))

\* the call stack after trigger(target, type, key) was entered from base
Trigger(base, key, by) ==
  Append(base, Frame("trig", NoEffect, key, FALSE, ToRun(key), by,
                     by # NoEffect /\ active[by], ~shouldTrack))

\* the reactiveEffect wrapper of `effect` is called from a caller whose frames
\* are base
EffectCall(effect, base) ==
  IF ~active[effect]
  THEN /\ callStack' = IF hasScheduler(effect) THEN base
                       ELSE Append(base, RunFrame(effect, FALSE))
       /\ UNCHANGED <<deps, effDeps, effectStack, activeEffect, shouldTrack, trackStack>>
  ELSE IF \E n \in 1..Len(effectStack) : effectStack[n] = effect
       THEN /\ callStack' = base
            /\ UNCHANGED <<deps, effDeps, effectStack, activeEffect, shouldTrack, trackStack>>
       ELSE /\ deps' = cleanup(deps, effDeps, effect)
            /\ effDeps' = [effDeps EXCEPT ![effect] = {}]
            /\ trackStack' = Append(trackStack, shouldTrack)
            /\ shouldTrack' = TRUE
            /\ effectStack' = Append(effectStack, effect)
            /\ activeEffect' = effect
            /\ callStack' = Append(base,
                   [RunFrame(effect, TRUE) EXCEPT
                      !.saved = [es |-> effectStack, ae |-> activeEffect,
                                 st |-> shouldTrack, ts |-> Len(trackStack)]])

\* what calling the wrapper does: "run" (the function is invoked) or "noop"
CallOutcome(effect) ==
  IF ~active[effect] THEN (IF hasScheduler(effect) THEN "noop" ELSE "run")
  ELSE IF \E n \in 1..Len(effectStack) : effectStack[n] = effect THEN "noop" ELSE "run"

\* code is running at the top level or inside an effect function
AtTop == callStack = <<>>
InBody == callStack # <<>> /\ Last(callStack).t = "run"
CanAct == fuel > 0 /\ (AtTop \/ InBody)

\* no read of computed.value returns in this step
Quiet(cl) == [cl EXCEPT !.got = "none"]

\* the getter is running
GetterRuns(cs) == \E i \in RunIdx(cs) : cs[i].eff = "c"

\* `get value` returns the cached value
Cached(cl) ==
  [cl EXCEPT !.got = IF cl.undef # "no" THEN "undefined"
                     ELSE IF cl.outdated # "no" THEN "stale" ELSE "fresh"]

\* outside code calls the effect (the first run of effect(fn), or a later call)
Invoke(effect) ==
  /\ AtTop /\ fuel > 0
  /\ ~isComputed(effect)
  /\ fuel' = fuel - 1
  /\ EffectCall(effect, callStack)
  /\ lastRun' = NoRun
  /\ cell' = Quiet(cell)
  /\ UNCHANGED <<active, dirty, notified, getterRuns, getterThrew, cachedRead>>
  /\ UNCHANGED nonReactVars

\* an effect function reads a property of the reactive object
Read(key) ==
  /\ InBody /\ fuel > 0
  /\ fuel' = fuel - 1
  /\ deps' = trackDeps(deps, activeEffect, shouldTrack, key)
  /\ effDeps' = trackEffDeps(effDeps, activeEffect, shouldTrack, key)
  /\ callStack' = NoteRead(callStack, key, shouldTrack)
  /\ lastRun' = NoRun
  /\ cell' = IF Last(callStack).eff = "c" /\ shouldTrack
             THEN [Quiet(cell) EXCEPT !.reads = @ \cup {key}]
             ELSE Quiet(cell)
  /\ UNCHANGED <<active, effectStack, activeEffect, shouldTrack, trackStack, dirty,
                 notified, getterRuns, getterThrew, cachedRead>>
  /\ UNCHANGED nonReactVars

\* outside code or an effect function writes a property: trigger(target, SET, key)
Write(key) ==
  /\ CanAct
  /\ fuel' = fuel - 1
  /\ callStack' = Trigger(callStack, key, Executing(callStack))
  /\ getterRuns' = IF \E n \in 1..Len(deps[key]) : deps[key][n] = "c" THEN 0 ELSE getterRuns
  /\ getterThrew' = IF \E n \in 1..Len(deps[key]) : deps[key][n] = "c" THEN FALSE
                    ELSE getterThrew
  /\ cachedRead' = IF \E n \in 1..Len(deps[key]) : deps[key][n] = "c" THEN FALSE
                   ELSE cachedRead
  /\ lastRun' = NoRun
  /\ cell' = IF key \in cell.reads /\ cell.outdated # "during"
             THEN [Quiet(cell) EXCEPT
                     !.outdated = IF GetterRuns(callStack) THEN "during" ELSE "after"]
             ELSE Quiet(cell)
  /\ UNCHANGED <<deps, effDeps, active, effectStack, activeEffect, shouldTrack,
                 trackStack, dirty, notified>>
  /\ UNCHANGED nonReactVars

\* the mutated scheduler of the computed cell: dirty is left as it is
DirtyAfterSchedulerKept(d) == d

\* the scheduler of the computed cell: if (!dirty) dirty = true
DirtyAfterScheduler(d) == IF ~d THEN TRUE ELSE d

\* trigger's run(effect) for the next effect of the running trigger call
TriggerRun ==
  /\ callStack # <<>>
  /\ Last(callStack).t = "trig"
  /\ Last(callStack).pending # <<>>
  /\ LET f == Last(callStack)
         x == Head(f.pending)
         how == IF hasScheduler(x) THEN "scheduler" ELSE CallOutcome(x)
         base == Append(Front(callStack),
                        [f EXCEPT !.pending = Tail(@),
                                  !.log = Append(@, [eff |-> x, how |-> how])])
     IN IF isComputed(x)
        THEN \* the computed cell's scheduler
             /\ dirty' = DirtyAfterScheduler(dirty)
             /\ callStack' = IF dirty THEN base ELSE Trigger(base, "cv", f.by)
             /\ UNCHANGED <<deps, effDeps, effectStack, activeEffect, shouldTrack,
                            trackStack, notified>>
        ELSE IF hasScheduler(x)
             THEN \* the scheduler queues the effect
                  /\ notified' = notified \cup {x}
                  /\ callStack' = base
                  /\ UNCHANGED <<deps, effDeps, effectStack, activeEffect, shouldTrack,
                                 trackStack, dirty>>
             ELSE /\ EffectCall(x, base)
                  /\ UNCHANGED <<dirty, notified>>
  /\ lastRun' = NoRun
  /\ cell' = Quiet(cell)
  /\ UNCHANGED <<active, fuel, getterRuns, getterThrew, cachedRead>>
  /\ UNCHANGED nonReactVars

\* the trigger call has run every effect and returns
TriggerReturn ==
  /\ callStack # <<>>
  /\ Last(callStack).t = "trig"
  /\ Last(callStack).pending = <<>>
  /\ callStack' = Front(callStack)
  /\ lastRun' = NoRun
  /\ cell' = Quiet(cell)
  /\ UNCHANGED <<deps, effDeps, active, effectStack, activeEffect, shouldTrack,
                 trackStack, dirty, fuel, notified, getterRuns, getterThrew, cachedRead>>
  /\ UNCHANGED nonReactVars

\* the mutated `get value`: the cell stays dirty after its runner returned
DirtyKept == TRUE

\* get value(): dirty = false after value = runner()
DirtyAfterRunner == FALSE

\* outside code or an effect function reads computed.value
ReadValue ==
  /\ CanAct
  /\ fuel' = fuel - 1
  /\ IF dirty /\ CallOutcome("c") = "run"
     THEN \* value = runner() invokes the getter
          /\ EffectCall("c", Append(callStack, GetFrame))
          /\ getterRuns' = getterRuns + 1
          /\ cell' = [Quiet(cell) EXCEPT !.reads = {}, !.outdated = "no",
                                         !.refreshed = (cell.outdated = "after")]
          /\ UNCHANGED <<dirty, cachedRead>>
     ELSE \* not dirty, or runner() returned undefined without invoking the getter
          /\ dirty' = IF dirty THEN DirtyAfterRunner ELSE dirty
          /\ deps' = trackDeps(deps, activeEffect, shouldTrack, "cv")
          /\ effDeps' = trackEffDeps(effDeps, activeEffect, shouldTrack, "cv")
          /\ callStack' = NoteRead(callStack, "cv", shouldTrack)
          /\ cachedRead' = (cachedRead \/ ~dirty)
          /\ cell' = IF dirty
                     THEN [cell EXCEPT !.got = "undefined",
                                      !.undef = IF active["c"] THEN "self" ELSE "stopped"]
                     ELSE Cached(cell)
          /\ UNCHANGED <<effectStack, activeEffect, shouldTrack, trackStack, getterRuns>>
  /\ lastRun' = NoRun
  /\ UNCHANGED <<active, notified, getterThrew>>
  /\ UNCHANGED nonReactVars

\* the executing effect function returns; reactiveEffect's finally block runs,
\* and `get value` continues if it was the computed getter
Return ==
  /\ InBody
  /\ LET f == Last(callStack)
         rest == Front(callStack)
         st2 == IF f.tracked THEN resetTracking(shouldTrack, trackStack)
                ELSE <<shouldTrack, trackStack>>
         es2 == IF f.tracked THEN Front(effectStack) ELSE effectStack
         ae2 == IF f.tracked THEN (IF es2 = <<>> THEN NoEffect ELSE Last(es2))
                ELSE activeEffect
     IN /\ effectStack' = es2
        /\ activeEffect' = ae2
        /\ shouldTrack' = st2[1]
        /\ trackStack' = st2[2]
        /\ lastRun' = [eff |-> f.eff, tracked |-> f.tracked, active |-> active[f.eff],
                       reads |-> f.reads, treads |-> f.treads]
        /\ IF rest # <<>> /\ Last(rest).t = "get"
           THEN /\ dirty' = DirtyAfterRunner
                /\ deps' = trackDeps(deps, ae2, st2[1], "cv")
                /\ effDeps' = trackEffDeps(effDeps, ae2, st2[1], "cv")
                /\ callStack' = NoteRead(Front(rest), "cv", st2[1])
                /\ cell' = Cached([cell EXCEPT !.undef = "no"])
           ELSE /\ callStack' = rest
                /\ cell' = Quiet(cell)
                /\ UNCHANGED <<dirty, deps, effDeps>>
  /\ UNCHANGED <<active, fuel, notified, getterRuns, getterThrew, cachedRead>>
  /\ UNCHANGED nonReactVars

\* the executing effect function throws and nothing on the call stack catches
\* it: the finally block of every reactiveEffect on the stack runs
Throw ==
  /\ InBody
  /\ LET n == Cardinality(TrackedIdx(callStack))
         st2 == ResetTimes(n, shouldTrack, trackStack)
         es2 == SubSeq(effectStack, 1, Len(effectStack) - n)
     IN /\ effectStack' = es2
        /\ activeEffect' = IF es2 = <<>> THEN NoEffect ELSE Last(es2)
        /\ shouldTrack' = st2[1]
        /\ trackStack' = st2[2]
  /\ callStack' = <<>>
  /\ getterThrew' = (getterThrew \/ \E i \in RunIdx(callStack) : callStack[i].eff = "c")
  /\ lastRun' = NoRun
  /\ cell' = Quiet(cell)
  /\ UNCHANGED <<deps, effDeps, active, dirty, fuel, notified, getterRuns, cachedRead>>
  /\ UNCHANGED nonReactVars

\* an effect function calls pauseTracking()
Pause ==
  /\ InBody /\ fuel > 0
  /\ Len(trackStack) - Len(effectStack) < MaxTrack
  /\ fuel' = fuel - 1
  /\ trackStack' = Append(trackStack, shouldTrack)
  /\ shouldTrack' = FALSE
  /\ lastRun' = NoRun
  /\ cell' = Quiet(cell)
  /\ UNCHANGED <<deps, effDeps, active, effectStack, activeEffect, dirty, callStack,
                 notified, getterRuns, getterThrew, cachedRead>>
  /\ UNCHANGED nonReactVars

\* an effect function calls resetTracking() after a pauseTracking()
Reset ==
  /\ InBody /\ fuel > 0
  /\ Len(trackStack) > Len(effectStack)
  /\ fuel' = fuel - 1
  /\ shouldTrack' = resetTracking(shouldTrack, trackStack)[1]
  /\ trackStack' = resetTracking(shouldTrack, trackStack)[2]
  /\ lastRun' = NoRun
  /\ cell' = Quiet(cell)
  /\ UNCHANGED <<deps, effDeps, active, effectStack, activeEffect, dirty, callStack,
                 notified, getterRuns, getterThrew, cachedRead>>
  /\ UNCHANGED nonReactVars

\* stop(effect), called by outside code or by an effect function
Stop(effect) ==
  /\ CanAct
  /\ fuel' = fuel - 1
  /\ IF active[effect]
     THEN /\ deps' = cleanup(deps, effDeps, effect)
          /\ effDeps' = [effDeps EXCEPT ![effect] = {}]
          /\ active' = [active EXCEPT ![effect] = FALSE]
     ELSE UNCHANGED <<deps, effDeps, active>>
  /\ lastRun' = NoRun
  /\ cell' = Quiet(cell)
  /\ UNCHANGED <<effectStack, activeEffect, shouldTrack, trackStack, dirty, callStack,
                 notified, getterRuns, getterThrew, cachedRead>>
  /\ UNCHANGED nonReactVars

InitEffect ==
  /\ SchedInit
  /\ dev = TRUE
  /\ selfTrig = {}
  /\ DiffIdle
  /\ ReactInit(MaxFuel)
  /\ WrapIdle
  /\ WatchIdle
  /\ ExtIdle

NextEffect ==
  \/ \E x \in Effects : Invoke(x)
  \/ \E k \in DataProps : Read(k)
  \/ \E k \in DataProps : Write(k)
  \/ ReadValue
  \/ TriggerRun
  \/ TriggerReturn
  \/ Return
  \/ Throw
  \/ Pause
  \/ Reset
  \/ \E x \in Effects : Stop(x)

SpecEffect == InitEffect /\ [][NextEffect]_vars

(***************************************************************************)
(* Claims about the effect system                                          *)
(***************************************************************************)
InDep(effect, key) == \E n \in 1..Len(deps[key]) : deps[key][n] = effect

TrigFrames == {i \in 1..Len(callStack) : callStack[i].t = "trig"}

\* the effects a trigger call has run so far
LogEffects(f) == {f.log[n].eff : n \in 1..Len(f.log)}

\* C1 (as stated): after a run of an effect completes, the effect is in the
\* dependency set of a key if and only if the run read that key.
C1_DepIffRead ==
  lastRun.eff # NoEffect =>
    \A k \in Props : InDep(lastRun.eff, k) <=> k \in lastRun.reads

\* C1 (amended): after a run of an effect that is active when the run completes,
\* the effect is in the dependency set of a key if and only if the run read
\* that key while tracking was enabled.
C1_DepIffTrackedRead ==
  (lastRun.eff # NoEffect /\ lastRun.active) =>
    \A k \in Props : InDep(lastRun.eff, k) <=> k \in lastRun.treads

\* C1 witness: a completed run of an active effect that read one key with
\* tracking enabled and another with tracking paused
C1_Witness ==
  /\ lastRun.eff # NoEffect
  /\ lastRun.active
  /\ lastRun.treads # {}
  /\ lastRun.reads # lastRun.treads

\* C8 (as stated): a write made by an executing effect to a key it depends on
\* neither re-runs that effect nor calls its scheduler.
C8_NoSelfNotification ==
  \A i \in TrigFrames :
    LET f == callStack[i] IN
    f.by # NoEffect =>
      \A n \in 1..Len(f.log) : f.log[n].eff = f.by => f.log[n].how = "noop"

\* C8 (amended): a write made by an executing effect that has not been stopped,
\* while tracking is not paused, to a key it depends on does not notify that
\* effect.
C8_NoSelfNotificationWhileTracking ==
  \A i \in TrigFrames :
    LET f == callStack[i] IN
    (f.by # NoEffect /\ f.byActive /\ ~f.paused) =>
      /\ f.by \notin LogEffects(f)
      /\ \A n \in 1..Len(f.pending) : f.pending[n] # f.by

\* C8 witness: an effect wrote a key it depends on, with tracking enabled; the
\* trigger call ran another effect of that key and has finished
C8_Witness ==
  \E i \in TrigFrames :
    LET f == callStack[i] IN
    /\ f.by # NoEffect /\ f.byActive /\ ~f.paused
    /\ f.key \in DataProps
    /\ InDep(f.by, f.key)
    /\ f.pending = <<>>
    /\ f.log # <<>>

\* C9: within one trigger call no effect that is not computed is run before a
\* computed one.
C9_ComputedRunFirst ==
  \A i \in TrigFrames :
    LET f == callStack[i] IN
    \A m \in 1..Len(f.log) : \A n \in 1..Len(f.log) :
      (m < n /\ isComputed(f.log[n].eff)) => isComputed(f.log[m].eff)

\* C9 witness: a trigger call has run a computed and a plain effect although
\* the plain effect was the first to subscribe to the key
C9_Witness ==
  \E i \in TrigFrames :
    LET f == callStack[i] IN
    /\ f.pending = <<>>
    /\ Len(f.log) >= 2
    /\ isComputed(f.log[1].eff)
    /\ ~isComputed(deps[f.key][1])
    /\ deps[f.key][1] \in LogEffects(f)

\* every invocation of the computed getter was made by a read of the cell
GetterOnlyByRead ==
  \A i \in RunIdx(callStack) :
    callStack[i].eff = "c" => (i > 1 /\ callStack[i - 1].t = "get")

C32_StoppedInNoDep ==
  \A x \in Effects : ~active[x] => \A k \in Props : ~InDep(x, k)

\* the frames a step takes off the call stack when an effect function
\* returns or throws, and the outermost tracked invocation among them
Finished == {i \in RunIdx(callStack) : i > Len(callStack') /\ callStack[i].tracked}
Outermost == callStack[CHOOSE i \in Finished : \A j \in Finished : i <= j]

\* an effect function returns or throws in this step
Finishes == InBody /\ Len(callStack') < Len(callStack) /\ Finished # {}

C34_NeverStale == cell.got \in {"none", "fresh"}

\* C34: a read of computed.value returns the result of the getter on the
\* current values of the keys it read, provided the cell's runner was not
\* stopped, the cell's value was not read while its getter was executing, and
\* no key was written during the getter's invocation after the getter read it.
C34_FreshUnlessStoppedOrReentrant ==
  (active["c"] /\ cell.undef = "no" /\ cell.outdated # "during") =>
     cell.got \in {"none", "fresh"}

\* C34 witness: a key the getter had read was written after the getter had
\* returned, and the next read of computed.value invoked the getter again and
\* returned its result
C34_Witness ==
  /\ active["c"]
  /\ cell.got = "fresh"
  /\ cell.refreshed
  /\ cell.reads # {}
  /\ ~dirty

(***************************************************************************)
(* Wrappers: reactive, readonly, shallowReadonly and the proxy handlers    *)
(***************************************************************************)
\* the module state that the wrapping functions read and write
WrapState == [rawToReactive |-> rawToReactive, rawToReadonly |-> rawToReadonly,
              proxyCount |-> proxyCount]

\* the lookup of toProxy left out
ToProxyGetNothing(map, target) == {}

\* toProxy.get(target): the proxy recorded for the target, if any
toProxyGet(map, target) == {p \in map : Target(p) = target}

canObserve(value) == value \notin rawValues

\* createReactiveObject with the pair of maps chosen by readonlyMaps: the
\* result and the state it leaves
createReactiveObject(st, target, readonlyMaps, handlers) ==
  LET map == IF readonlyMaps THEN st.rawToReadonly ELSE st.rawToReactive
      observed == Proxy(target, handlers, st.proxyCount + 1)
  IN IF toProxyGet(map, target) # {}
     THEN [res |-> CHOOSE p \in toProxyGet(map, target) : TRUE, st |-> st]
     ELSE IF target \in map \/ ~canObserve(target)
     THEN [res |-> target, st |-> st]
     ELSE [res |-> observed,
           st |-> [rawToReactive |-> IF readonlyMaps THEN st.rawToReactive
                                     ELSE st.rawToReactive \cup {observed},
                   rawToReadonly |-> IF readonlyMaps THEN st.rawToReadonly \cup {observed}
                                     ELSE st.rawToReadonly,
                   proxyCount |-> st.proxyCount + 1]]

WrapFns == {"reactive", "readonly", "shallowReadonly"}

\* reactive(target), readonly(target), shallowReadonly(target)
WrapOn(st, fn, target) ==
  CASE fn = "reactive" ->
         IF target \in st.rawToReadonly THEN [res |-> target, st |-> st]
         ELSE createReactiveObject(st, target, FALSE, "mutable")
    [] fn = "readonly" -> createReactiveObject(st, target, TRUE, "readonly")
    [] fn = "shallowReadonly" -> createReactiveObject(st, target, TRUE, "shallowReadonly")

\* the own property key of the raw object x
Field(key) == CASE key = "plain" -> <<"n">> [] key = "r" -> <<"R">> [] key = "raw" -> <<"d">>

isRef(v) == v = <<"R">>

\* the get trap of the proxy h (createGetter), target[key] being read through
\* the target's own trap when the target is a proxy: the result and the state
RECURSIVE ProxyGet(_, _, _)
ProxyGet(st, h, key) ==
  LET inner == IF IsRaw(Target(h)) THEN [res |-> Field(key), st |-> st]
               ELSE ProxyGet(st, Target(h), key)
      res == inner.res
  IN CASE Handlers(h) = "shallowReadonly" -> inner
       [] isRef(res) -> [res |-> RefValue, st |-> inner.st]
       [] Handlers(h) = "readonly" -> WrapOn(inner.st, "readonly", res)
       [] OTHER -> WrapOn(inner.st, "reactive", res)

\* every handler passes writes on
WritesThroughAll(handlers) == TRUE

\* does the set or deleteProperty trap of these handlers reach the target?
WritesThrough(handlers) == handlers = "mutable"

\* h.v = new or delete h.v (new = Absent): the data afterwards
WriteVal(h, new) ==
  IF IsRaw(h) \/ WritesThrough(Handlers(h)) THEN [val EXCEPT ![h[1]] = new] ELSE val

\* h.v = new or delete h.v: is trigger called?
WriteTriggers(h, new) ==
  /\ ~IsRaw(h)
  /\ WritesThrough(Handlers(h))
  /\ IF new = Absent THEN val[h[1]] # Absent
     ELSE val[h[1]] = Absent \/ val[h[1]] # new

IsReadonlyProxy(v) == Handlers(v) \in {"readonly", "shallowReadonly"}

\* user code calls reactive, readonly or shallowReadonly on a value it holds
WrapCall(fn) ==
  \E h \in held :
    /\ LET r == WrapOn(WrapState, fn, h)
       IN /\ rawToReactive' = r.st.rawToReactive
          /\ rawToReadonly' = r.st.rawToReadonly
          /\ r.st.proxyCount <= MaxProxies
          /\ proxyCount' = r.st.proxyCount
          /\ held' = held \cup {r.res}
          /\ ro' = IF IsReadonlyProxy(r.res) THEN ro \cup {r.res} ELSE ro
    /\ UNCHANGED <<val, roPlain, roWrites, writes>>
    /\ UNCHANGED nonWrapVars

\* user code reads a property of x through a proxy it holds
GetProp(key) ==
  \E h \in held :
    /\ ~IsRaw(h) /\ h[1] = "x"
    /\ LET r == ProxyGet(WrapState, h, key)
       IN /\ rawToReactive' = r.st.rawToReactive
          /\ rawToReadonly' = r.st.rawToReadonly
          /\ r.st.proxyCount <= MaxProxies
          /\ proxyCount' = r.st.proxyCount
          /\ held' = held \cup {r.res}
          /\ ro' = IF h \in ro THEN ro \cup {r.res} ELSE ro
          /\ roPlain' = IF Handlers(h) = "readonly" /\ key = "plain"
                        THEN roPlain \cup {r.res} ELSE roPlain
    /\ UNCHANGED <<val, roWrites, writes>>
    /\ UNCHANGED nonWrapVars

\* user code assigns the property v, or deletes it, through a value it holds
SetProp(new) ==
  \E h \in held :
    /\ h[1] \in RawObjs
    /\ writes < MaxWrites
    /\ writes' = writes + 1
    /\ val' = WriteVal(h, new)
    /\ roWrites' = IF h \in ro /\ (WriteVal(h, new) # val \/ WriteTriggers(h, new))
                   THEN roWrites \cup {h} ELSE roWrites
    /\ UNCHANGED <<rawToReactive, rawToReadonly, proxyCount, held, ro, roPlain>>
    /\ UNCHANGED nonWrapVars

InitWrap ==
  /\ SchedInit
  /\ dev = FALSE
  /\ selfTrig = {}
  /\ DiffIdle
  /\ ReactIdle
  /\ WrapIdle
  /\ WatchIdle
  /\ ExtIdle

NextWrap ==
  \/ \E fn \in WrapFns : WrapCall(fn)
  \/ \E key \in NestedKeys : GetProp(key)
  \/ \E new \in {1, Absent} : SetProp(new)

SpecWrap == InitWrap /\ [][NextWrap]_vars

(***************************************************************************)
(* Claims about the wrappers                                               *)
(***************************************************************************)
\* C14: in every state, for every wrapping function and every value that can
\* be observed, wrapping the value twice returns the identical wrapper, and
\* wrapping that wrapper returns it.
C14_WrapIdempotent ==
  \A fn \in WrapFns : \A x \in held :
    canObserve(x) =>
      LET w1 == WrapOn(WrapState, fn, x)
          w2 == WrapOn(w1.st, fn, x)
          ww == WrapOn(w2.st, fn, w1.res)
      IN w2.res = w1.res /\ ww.res = w1.res

\* C14 witness: the raw object x, its reactive proxy and a read-only proxy of
\* that proxy are held
C14_Witness ==
  \E p \in held : \E q \in held :
    /\ Target(p) = <<"x">> /\ Handlers(p) = "mutable"
    /\ Target(q) = p /\ Handlers(q) = "readonly"

\* C20 (as stated): no write or delete through a read-only wrapper, or through
\* a value read from one, changed data or called trigger.
C20_ReadonlyNeverWrites ==
  roWrites = {}

\* C20 (amended): no write or delete through a proxy with read-only handlers
\* changed data or called trigger, and every value read from a deep read-only
\* wrapper as a property holding an observable plain object is such a proxy.
C20_ReadonlyProxyNeverWrites ==
  /\ \A h \in roWrites : ~IsReadonlyProxy(h)
  /\ \A h \in roPlain : IsReadonlyProxy(h)

\* C20 witness: writes were made through a read-only wrapper of x and through
\* the read-only wrapper read from it, and the data is unchanged
C20_Witness ==
  /\ writes = MaxWrites
  /\ \E h \in roPlain : h[1] = "n"
  /\ val = [o \in RawObjs |-> 0]
  /\ roWrites = {}

(***************************************************************************)
(* Watchers: the operations                                                *)
(***************************************************************************)
\* state.count.a.b = v outside any flush: trigger calls the scheduler of the
\* runner if the runner is in the dep of nested
WatchWrite(v, reg) ==
  LET w0 == IF wTickDone THEN [watcher EXCEPT !.cbCalls = 0] ELSE watcher
      triggers == v # nested /\ "b" \in watcher.deps
      kind == SchedulerOf(opts.flush)
  IN /\ (wTickDone \/ tickWrites < MaxTickWrites)
     /\ nested' = v
     /\ watcher' = IF triggers /\ kind = "sync" THEN WatchJob(w0, opts, v, reg) ELSE w0
     /\ IF triggers /\ kind = "pre"
        THEN queueJob("W") /\ UNCHANGED postFlushCbs
        ELSE IF triggers /\ kind = "post"
        THEN queuePostFlushCb("W") /\ UNCHANGED queue
        ELSE UNCHANGED <<queue, postFlushCbs, isFlushPending>>
     /\ tickWrites' = IF wTickDone THEN 1 ELSE tickWrites + 1
     /\ fired' = (triggers \/ (~wTickDone /\ fired))
     /\ changed' = (v # nested \/ (~wTickDone /\ changed))
     /\ prevOld' = IF wTickDone THEN watcher.oldValue ELSE prevOld
     /\ wTickDone' = FALSE
     /\ UNCHANGED opts
     /\ UNCHANGED <<diffVars, reactVars, wrapVars, extVars>>
     /\ UNCHANGED <<isFlushing, seen, dev, pc, cur, cbs, selfTrig, budget, runs, reqs, late,
                    pendingAtDeq, tickDone, error, cbQueued, superseded, directRuns,
                    renderCalls, compState>>

\* the tick ends: flushJobs, if it was scheduled, runs the queued jobs and then
\* the copy of the post-flush callbacks
TickEnd(reg) ==
  /\ ~wTickDone
  /\ watcher' = RunJobs(watcher, opts, nested, Len(queue) + Len(Dedupe(postFlushCbs)), reg)
  /\ queue' = <<>>
  /\ postFlushCbs' = <<>>
  /\ isFlushPending' = FALSE
  /\ wTickDone' = TRUE
  /\ UNCHANGED <<opts, nested, tickWrites, fired, changed, prevOld>>
  /\ UNCHANGED <<diffVars, reactVars, wrapVars, extVars>>
  /\ UNCHANGED <<isFlushing, seen, dev, pc, cur, cbs, selfTrig, budget, runs, reqs, late,
                 pendingAtDeq, tickDone, error, cbQueued, superseded, directRuns,
                 renderCalls, compState>>

\* user code calls the stop handle that doWatch returned
StopCall ==
  /\ watcher' = stopHandle(watcher)
  /\ UNCHANGED <<opts, nested, tickWrites, wTickDone, fired, changed, prevOld>>
  /\ UNCHANGED <<schedVars, diffVars, reactVars, wrapVars, extVars>>

InitWatch ==
  /\ SchedInit
  /\ dev = FALSE
  /\ selfTrig = {}
  /\ DiffIdle
  /\ ReactIdle
  /\ WrapIdle
  /\ ExtIdle
  /\ \E fl \in Flushes : \E cb \in BOOLEAN : \E dp \in BOOLEAN : \E src \in Sources :
       \E ss \in BOOLEAN : \E reg \in BOOLEAN :
         /\ (~cb => (~dp /\ src = "getterValue"))
         /\ (cb => ~reg)
         /\ WatchInit([flush |-> fl, hasCb |-> cb, deep |-> dp, source |-> src,
                       selfStop |-> ss], reg)

NextWatch ==
  \/ \E v \in {0, 1} : \E reg \in BOOLEAN : WatchWrite(v, reg)
  \/ \E reg \in BOOLEAN : TickEnd(reg)
  \/ StopCall

SpecWatch == InitWatch /\ [][NextWatch]_vars

C16_DefaultIsPre ==
  opts.flush = "none" =>
    /\ postFlushCbs = <<>>
    /\ (fired /\ ~wTickDone) => "W" \in Range(queue)

\* C16 (amended): the job of a watcher created without a flush option is
\* never in the queue, and is in postFlushCbs once its scheduler was called in
\* the tick.
C16_DefaultIsPost ==
  opts.flush = "none" =>
    /\ queue = <<>>
    /\ (fired /\ ~wTickDone) => "W" \in Range(postFlushCbs)

\* C16 witness: the source of a watcher without a flush option changed and its
\* job waits in postFlushCbs
C16_Witness ==
  opts.flush = "none" /\ fired /\ ~wTickDone /\ postFlushCbs # <<>>

\* C17: when a reactive object is the source of a watcher with a callback,
\* a tick in which the nested property changed has called the callback.
C17_ReactiveSourceIsDeep ==
  (opts.hasCb /\ opts.source = "reactive" /\ ~watcher.stopped /\ wTickDone /\ changed)
    => watcher.cbCalls >= 1

\* C18: once the stop handle was called, the runner is inactive, is in no
\* dep, and is not in instance.effects.
C18_StoppedIsDetached ==
  watcher.stopped => (~watcher.active /\ watcher.deps = {} /\ ~watcher.inEffects)

C31_NoCbAfterStop ==
  [][(opts.hasCb /\ ~opts.selfStop /\ watcher.stopped) =>
       watcher'.cbCalls <= (IF wTickDone THEN 0 ELSE watcher.cbCalls)]_vars

(***************************************************************************)
(* getSequence as a function of its argument                               *)
(***************************************************************************)
MaxSeqLen == 3
MaxSeqVal == 4

\* the array of the notes on the diff
ExampleArr == <<2, 1, 5, 3, 6, 4, 8, 9, 7>>

RECURSIVE SeqsUpTo(_, _)
SeqsUpTo(vals, n) ==
  IF n = 0 THEN {<<>>}
  ELSE LET shorter == SeqsUpTo(vals, n - 1)
       IN shorter \cup {Append(q, v) : q \in shorter, v \in vals}

\* the arguments tried: every array of at most MaxSeqLen entries of
\* 0..MaxSeqVal, and every prefix of the example
SeqInputs ==
  SeqsUpTo(0..MaxSeqVal, MaxSeqLen)
    \cup {SubSeq(ExampleArr, 1, n) : n \in 0..Len(ExampleArr)}

InitSeq ==
  /\ CoreIdle
  /\ ExtIdleExcept("seq")
  /\ seqIn \in SeqInputs
  /\ seqOut = NotCalled

\* getSequence(seqIn) is called
GetSequenceCall ==
  /\ seqOut = NotCalled
  /\ seqOut' = getSequence(seqIn)
  /\ UNCHANGED seqIn
  /\ UNCHANGED nonSeqVars

NextSeq == GetSequenceCall

SpecSeq == InitSeq /\ [][NextSeq]_vars

\* the values of a at the indices of s are strictly increasing
IncreasingAt(a, s) ==
  \A m \in 1..(Len(s) - 1) : s[m] < s[m + 1] /\ At(a, s[m]) < At(a, s[m + 1])

\* C24: getSequence of the example array is [1, 3, 5, 6, 7], five indices
\* with strictly increasing values 1, 3, 4, 8, 9.
C24_ExampleSequence ==
  (seqIn = ExampleArr /\ seqOut # NotCalled) =>
    /\ seqOut = <<1, 3, 5, 6, 7>>
    /\ IncreasingAt(seqIn, seqOut)
    /\ [m \in 1..Len(seqOut) |-> At(seqIn, seqOut[m])] = <<1, 3, 4, 8, 9>>

\* C24 witness: getSequence was called on the example array
C24_Witness ==
  seqIn = ExampleArr /\ seqOut # NotCalled /\ Len(seqOut) = 5

\* the nonzero entries of a are pairwise distinct
DistinctNonZero(a) ==
  \A m, n \in 1..Len(a) : (m # n /\ a[m] # 0) => a[m] # a[n]

\* the 0-based index sets of a whose entries are nonzero and increase with
\* the index
IncreasingIndexSets(a) ==
  {ix \in SUBSET (0..(Len(a) - 1)) :
     /\ \A m \in ix : At(a, m) # 0
     /\ \A m, n \in ix : m < n => At(a, m) < At(a, n)}

\* the indices of s are in range and refer to nonzero entries of a
OnlyNonZero(a, s) ==
  \A m \in 1..Len(s) : s[m] \in 0..(Len(a) - 1) /\ At(a, s[m]) # 0

\* s is a longest increasing index sequence over the nonzero entries of a
LongestIncreasing(a, s) ==
  /\ \A m \in 1..(Len(s) - 1) : s[m] < s[m + 1]
  /\ OnlyNonZero(a, s)
  /\ \A m \in 1..(Len(s) - 1) : At(a, s[m]) < At(a, s[m + 1])
  /\ \A ix \in IncreasingIndexSets(a) : Cardinality(ix) <= Len(s)

\* the result without a leading index 0 that stands for no nonzero entry
WithoutSpuriousZero(a, s) ==
  IF s # <<>> /\ s[1] = 0 /\ (a = <<>> \/ a[1] = 0) THEN Tail(s) ELSE s

\* C40 as stated: on an array whose nonzero entries are pairwise distinct,
\* getSequence returns strictly increasing indices of nonzero entries with
\* strictly increasing values, and no longer such sequence exists.
C40_LongestOverNonZero ==
  (seqOut # NotCalled /\ DistinctNonZero(seqIn)) => LongestIncreasing(seqIn, seqOut)

\* C40: on an array whose nonzero entries are pairwise distinct, getSequence
\* returns a longest strictly increasing index sequence over the nonzero
\* entries, preceded by index 0 when the array is empty or its first entry
\* is 0 (result starts as [0] and index 0 is never taken out).
C40_LongestAfterLeadingZero ==
  (seqOut # NotCalled /\ DistinctNonZero(seqIn)) =>
    /\ LongestIncreasing(seqIn, WithoutSpuriousZero(seqIn, seqOut))
    /\ (seqIn = <<>> \/ seqIn[1] = 0) => (seqOut # <<>> /\ seqOut[1] = 0)

\* C40 witness: getSequence was called on an array with a zero in the
\* middle and returned the two indices around it
C40_Witness ==
  seqIn = <<2, 0, 3>> /\ seqOut = <<0, 2>>

(***************************************************************************)
(* Mounting a root vnode into a host container and unmounting it           *)
(* (render, patch with n1 == null, unmount, remove of part_002)             *)
(***************************************************************************)
MaxChildren == 2   \* children of the root fragment

VNode(type, transition, children) ==
  [type |-> type, transition |-> transition, children |-> children]

\* text, comment and element vnodes; an element has no transition, a
\* persisted one, or one whose leave hook receives the removal
Leaves ==
  {VNode("text", "none", <<>>), VNode("comment", "none", <<>>)} \cup
  {VNode("element", t, <<>>) : t \in {"none", "persisted", "leave"}}

\* what a fragment or a component contains: a leaf, a component that renders
\* a leaf, or a fragment of at most one leaf
Items ==
  Leaves \cup
  {VNode("component", "none", <<l>>) : l \in Leaves} \cup
  {VNode("fragment", "none", <<>>)} \cup
  {VNode("fragment", "none", <<l>>) : l \in Leaves}

\* the vnodes handed to render
Roots ==
  Items \cup
  {VNode("component", "none", <<i>>) : i \in Items} \cup
  {VNode("fragment", "none", cs) : cs \in SeqsUpTo(Items, MaxChildren)}

\* a node that was in the container before the mount
ForeignNode == <<"old", 1>>

\* the host node created as the n-th of this mount
NewNode(n) == <<"new", n>>

RECURSIVE patchMount(_, _, _, _)
RECURSIVE mountChildren(_, _, _, _)
\* patch(null, v, container, anchor) with n nodes created before: the child
\* list, the el and anchor of the rendered vnode (of the subTree for a
\* component, whose el the component vnode takes), the nodes created
patchMount(c, v, anchor, n) ==
  CASE v.type = "fragment" ->
         LET fragmentStartAnchor == NewNode(n + 1)
             fragmentEndAnchor == NewNode(n + 2)
             c0 == hostInsert(hostInsert(c, fragmentStartAnchor, anchor),
                              fragmentEndAnchor, anchor)
             r == mountChildren(c0, v.children, fragmentEndAnchor, n + 2)
         IN [c |-> r.c, el |-> fragmentStartAnchor, anchor |-> fragmentEndAnchor,
             n |-> r.n]
    [] v.type = "component" -> patchMount(c, v.children[1], anchor, n)
    [] OTHER ->
         [c |-> hostInsert(c, NewNode(n + 1), anchor), el |-> NewNode(n + 1),
          anchor |-> NoNode, n |-> n + 1]

mountChildren(c, children, anchor, n) ==
  IF children = <<>> THEN [c |-> c, n |-> n]
  ELSE LET r == patchMount(c, Head(children), anchor, n)
       IN mountChildren(r.c, Tail(children), anchor, r.n)

\* removeFragment without the end anchor
RemoveFragmentKeepEnd(c, node, end) ==
  LET i == CHOOSE k \in 1..Len(c) : c[k] = node
      j == CHOOSE k \in 1..Len(c) : c[k] = end
  IN SubSeq(c, 1, i - 1) \o SubSeq(c, j, Len(c))

RECURSIVE removeFragment(_, _, _)
removeFragment(c, node, end) ==
  IF node # end /\ node # NoNode
  THEN removeFragment(hostRemove(c, node), hostNextSibling(c, node), end)
  ELSE hostRemove(c, end)

RECURSIVE SubTreeRoot(_)
\* unmount of a component vnode is unmountComponent, which unmounts subTree
SubTreeRoot(v) == IF v.type = "component" THEN SubTreeRoot(v.children[1]) ELSE v

\* remove(vnode) hands the removal to leave / delayLeave
HasLeave(v) == v.type = "element" /\ v.transition = "leave"

\* remove(vnode): the child list, given whether a leave hook calls the
\* removal before it returns
remove(c, v, el, anchor, leftNow) ==
  IF v.type = "fragment" THEN removeFragment(c, el, anchor)
  ELSE IF HasLeave(v) /\ ~leftNow THEN c
  ELSE hostRemove(c, el)

InitMount ==
  /\ CoreIdle
  /\ ExtIdleExcept("mount")
  /\ hostBefore \in {<<>>, <<ForeignNode>>}
  /\ hostChildren = hostBefore
  /\ containerVNode = NoVNode
  /\ pendingLeave = {}
  /\ mountPhase = "fresh"
  /\ mountedRoot = NoVNode.vnode

\* render(v, container) with container._vnode unset
RenderMount(v) ==
  /\ mountPhase = "fresh"
  /\ LET r == patchMount(hostChildren, v, NoNode, 0)
     IN /\ hostChildren' = r.c
        /\ containerVNode' = [vnode |-> v, el |-> r.el, anchor |-> r.anchor]
  /\ mountPhase' = "mounted"
  /\ mountedRoot' = v
  /\ UNCHANGED <<hostBefore, pendingLeave>>
  /\ UNCHANGED nonMountVars

\* render(null, container): unmount(container._vnode, null, null, true);
\* the children are unmounted without doRemove, the root is removed
RenderUnmount(leftNow) ==
  /\ mountPhase = "mounted"
  /\ LET root == SubTreeRoot(containerVNode.vnode)
     IN /\ hostChildren' = remove(hostChildren, root, containerVNode.el,
                                  containerVNode.anchor, leftNow)
        /\ pendingLeave' = IF HasLeave(root) /\ ~leftNow
                           THEN {containerVNode.el} ELSE {}
  /\ containerVNode' = NoVNode
  /\ mountPhase' = "unmounted"
  /\ UNCHANGED <<hostBefore, mountedRoot>>
  /\ UNCHANGED nonMountVars

\* a leave hook calls performRemove
LeaveDone ==
  /\ pendingLeave # {}
  /\ LET el == CHOOSE x \in pendingLeave : TRUE
     IN /\ hostChildren' = hostRemove(hostChildren, el)
        /\ pendingLeave' = pendingLeave \ {el}
  /\ UNCHANGED <<hostBefore, containerVNode, mountPhase, mountedRoot>>
  /\ UNCHANGED nonMountVars

NextMount ==
  \/ \E v \in Roots : RenderMount(v)
  \/ \E leftNow \in BOOLEAN : RenderUnmount(leftNow)
  \/ LeaveDone

SpecMount == InitMount /\ [][NextMount]_vars

PropKeys == {"flag", "name"}

\* no own property of that key
NoProp == "absent"

\* initProps has not run
NotResolved == [k \in PropKeys |-> "unset"]

\* the values a parent passes; the booleans are "true" and "false"
PropValues == {"undefined", "", "flag", "name", "x", "true", "false"}

DefaultValue == "dflt"

\* a declaration: the type list and whether it has a default; NotDeclared
\* for a key the component does not declare
NotDeclared == [type |-> <<>>, hasDefault |-> FALSE, declared |-> FALSE]

PropOpts ==
  {[type |-> t, hasDefault |-> h, declared |-> TRUE] :
     t \in {<<"Boolean">>, <<"String">>, <<"Boolean", "String">>, <<"String", "Boolean">>},
     h \in BOOLEAN}

\* getTypeIndex(type, expectedTypes): 0-based, -1 when missing
getTypeIndex(type, expectedTypes) ==
  LET at == {k \in 1..Len(expectedTypes) : expectedTypes[k] = type}
  IN IF at = {} THEN -1 ELSE (CHOOSE k \in at : \A m \in at : k <= m) - 1

\* prop[BooleanFlags.shouldCast]
shouldCast(opt) == getTypeIndex("Boolean", opt.type) > -1

\* prop[BooleanFlags.shouldCastTrue]
shouldCastTrue(opt) ==
  \/ getTypeIndex("String", opt.type) < 0
  \/ getTypeIndex("Boolean", opt.type) < getTypeIndex("String", opt.type)

\* needCastKeys of normalizePropsOptions
needCastKeys(options) ==
  {k \in PropKeys : options[k].declared /\ (shouldCast(options[k]) \/ options[k].hasDefault)}

\* hyphenate(key); the keys of PropKeys have no upper-case letter
hyphenate(key) == key

\* resolvePropValue without the boolean casting
ResolvePropValueNoCast(options, props, key, value) ==
  IF options[key].hasDefault /\ value = "undefined" THEN DefaultValue ELSE value

\* resolvePropValue(options, props, key, value); a missing own property reads
\* as undefined
resolvePropValue(options, props, key, value) ==
  LET opt == options[key]
      v0 == IF opt.hasDefault /\ value = "undefined" THEN DefaultValue ELSE value
  IN IF shouldCast(opt)
     THEN IF props[key] = NoProp /\ ~opt.hasDefault THEN "false"
          ELSE IF shouldCastTrue(opt) /\ (v0 = "" \/ v0 = hyphenate(key)) THEN "true"
          ELSE v0
     ELSE v0

\* the value a read of obj[key] gives
ReadProp(obj, key) == IF obj[key] = NoProp THEN "undefined" ELSE obj[key]

\* setFullProps: the props and attrs objects
setFullProps(options, raw) ==
  LET copied == [k \in PropKeys |-> IF options[k].declared THEN raw[k] ELSE NoProp]
      attrs == [k \in PropKeys |-> IF options[k].declared THEN NoProp ELSE raw[k]]
      props == [k \in PropKeys |->
                  IF k \in needCastKeys(options)
                  THEN resolvePropValue(options, copied, k, ReadProp(copied, k))
                  ELSE copied[k]]
  IN [props |-> props, attrs |-> attrs]

InitProps ==
  /\ CoreIdle
  /\ ExtIdleExcept("props")
  /\ propsOptions \in [PropKeys -> PropOpts \cup {NotDeclared}]
  /\ rawProps \in [PropKeys -> PropValues \cup {NoProp}]
  /\ instanceProps = NotResolved
  /\ instanceAttrs = NotResolved

\* initProps(instance, rawProps, isStateful)
initProps ==
  /\ instanceProps = NotResolved
  /\ LET r == setFullProps(propsOptions, rawProps)
     IN /\ instanceProps' = r.props
        /\ instanceAttrs' = r.attrs
  /\ UNCHANGED <<propsOptions, rawProps>>
  /\ UNCHANGED nonPropVars

NextProps == initProps

SpecProps == InitProps /\ [][NextProps]_vars

\* a declaration by a bare type or type list
TypeOnly(t) == [type |-> t, hasDefault |-> FALSE, declared |-> TRUE]

\* the declaration {flag: Boolean, name: [Boolean, String]}
FlagNameDeclared ==
  /\ propsOptions["flag"] = TypeOnly(<<"Boolean">>)
  /\ propsOptions["name"] = TypeOnly(<<"Boolean", "String">>)

\* C22 as stated: with {flag: Boolean, name: [Boolean, String]} declared and
\* {flag: undefined, name: ""} passed, the props are {flag: false, name: true}.
C22_UndefinedFlagFalse ==
  (/\ FlagNameDeclared
   /\ rawProps = [flag |-> "undefined", name |-> ""]
   /\ instanceProps # NotResolved)
  => instanceProps = [flag |-> "false", name |-> "true"]

\* C22: with {flag: Boolean, name: [Boolean, String]} declared and
\* {flag: undefined, name: ""} passed, the props are {flag: undefined, name:
\* true}; flag is false when the parent passes no flag at all.
C22_UndefinedFlagStays ==
  (FlagNameDeclared /\ rawProps["name"] = "" /\ instanceProps # NotResolved) =>
    /\ instanceProps["name"] = "true"
    /\ rawProps["flag"] = "undefined" => instanceProps["flag"] = "undefined"
    /\ rawProps["flag"] = NoProp => instanceProps["flag"] = "false"

\* C22 witness: the props of the example were resolved
C22_Witness ==
  /\ FlagNameDeclared
  /\ rawProps = [flag |-> "undefined", name |-> ""]
  /\ instanceProps = [flag |-> "undefined", name |-> "true"]

(***************************************************************************)
(* provide / inject (part_002; instance.provides of                        *)
(* createComponentInstance, runtime-dom/src/index.ts)                      *)
(***************************************************************************)
MaxProvides == 2   \* provide calls of one setup

\* P1 is the root component, P2 and S are its children, C is a child of P2
Instances == {"P1", "P2", "S", "C"}

InstParent(i) ==
  CASE i = "P2" -> "P1"
    [] i = "S" -> "P1"
    [] i = "C" -> "P2"
    [] OTHER -> "none"

\* the order in which the instances are created: mountChildren mounts P2
\* with its subtree before S
MountOrder == <<"P1", "P2", "C", "S">>

\* the components whose setup calls provide, and those whose setup calls inject
Providers == {"P1", "P2", "C"}
Consumers == {"C", "S"}

InjectionKeys == {"foo", "bar"}

ProvidedValues == {"a", "b"}

\* no own property / nothing provided
NoValue == "novalue"

\* inject has not been called
NotInjected == "notcalled"

\* Object.create(proto)
ObjectCreate(proto) == [own |-> [k \in InjectionKeys |-> NoValue], proto |-> proto]

\* appContext.provides is the first object, without prototype
AppProvides == 1

RECURSIVE LookupFarthest(_, _, _)
\* the property of the farthest object of the prototype chain that has it
LookupFarthest(objs, o, key) ==
  IF o = 0 THEN NoValue
  ELSE LET up == LookupFarthest(objs, objs[o].proto, key)
       IN IF up # NoValue THEN up ELSE objs[o].own[key]

RECURSIVE Lookup(_, _, _)
\* provides[key] through the prototype chain (NoValue: !(key in provides))
Lookup(objs, o, key) ==
  IF o = 0 THEN NoValue
  ELSE IF objs[o].own[key] # NoValue THEN objs[o].own[key]
  ELSE Lookup(objs, objs[o].proto, key)

\* provide that writes into the object the instance has
ProvideInPlace(objs, own, parentProvides, key, value) ==
  [objs |-> [objs EXCEPT ![own].own[key] = value], provides |-> own]

\* provide(key, value): the objects and currentInstance.provides afterwards
provide(objs, own, parentProvides, key, value) ==
  IF parentProvides = own
  THEN [objs |-> Append(objs, [ObjectCreate(parentProvides) EXCEPT !.own[key] = value]),
        provides |-> Len(objs) + 1]
  ELSE [objs |-> [objs EXCEPT ![own].own[key] = value], provides |-> own]

InitProvide ==
  /\ CoreIdle
  /\ ExtIdleExcept("provide")
  /\ providesObjs = <<ObjectCreate(0)>>
  /\ instProvides = [i \in Instances |-> 0]
  /\ currentInstance = "none"
  /\ setupDone = {}
  /\ provideLog = [i \in Instances |-> [k \in InjectionKeys |-> NoValue]]
  /\ provideCount = 0
  /\ injected = [i \in Instances |-> [k \in InjectionKeys |-> NotInjected]]

\* createComponentInstance(vnode, parent) and the start of its setup
CreateInstance(i) ==
  /\ currentInstance = "none"
  /\ instProvides[i] = 0
  /\ \E k \in 1..Len(MountOrder) :
        /\ MountOrder[k] = i
        /\ \A m \in 1..(k - 1) : MountOrder[m] \in setupDone
  /\ IF InstParent(i) = "none"
     THEN /\ providesObjs' = Append(providesObjs, ObjectCreate(AppProvides))
          /\ instProvides' = [instProvides EXCEPT ![i] = Len(providesObjs) + 1]
     ELSE /\ providesObjs' = providesObjs
          /\ instProvides' = [instProvides EXCEPT ![i] = instProvides[InstParent(i)]]
  /\ currentInstance' = i
  /\ provideCount' = 0
  /\ UNCHANGED <<setupDone, provideLog, injected>>
  /\ UNCHANGED nonProvVars

\* provide(key, value) in the running setup
ProvideCall(key, value) ==
  /\ currentInstance \in Providers
  /\ provideCount < MaxProvides
  /\ LET i == currentInstance
         parentProvides == IF InstParent(i) = "none" THEN 0
                           ELSE instProvides[InstParent(i)]
         r == provide(providesObjs, instProvides[i], parentProvides, key, value)
     IN /\ providesObjs' = r.objs
        /\ instProvides' = [instProvides EXCEPT ![i] = r.provides]
        /\ provideLog' = [provideLog EXCEPT ![i][key] = value]
  /\ provideCount' = provideCount + 1
  /\ UNCHANGED <<currentInstance, setupDone, injected>>
  /\ UNCHANGED nonProvVars

\* inject(key) in the running setup, without default
InjectCall(key) ==
  /\ currentInstance \in Consumers
  /\ injected[currentInstance][key] = NotInjected
  /\ injected' = [injected EXCEPT ![currentInstance][key] =
                    Lookup(providesObjs, instProvides[currentInstance], key)]
  /\ UNCHANGED <<providesObjs, instProvides, currentInstance, setupDone, provideLog,
                 provideCount>>
  /\ UNCHANGED nonProvVars

\* setup returns
SetupEnd ==
  /\ currentInstance # "none"
  /\ setupDone' = setupDone \cup {currentInstance}
  /\ currentInstance' = "none"
  /\ provideCount' = 0
  /\ UNCHANGED <<providesObjs, instProvides, provideLog, injected>>
  /\ UNCHANGED nonProvVars

NextProvide ==
  \/ \E i \in Instances : CreateInstance(i)
  \/ \E key \in InjectionKeys, value \in ProvidedValues : ProvideCall(key, value)
  \/ \E key \in InjectionKeys : InjectCall(key)
  \/ SetupEnd

SpecProvide == InitProvide /\ [][NextProvide]_vars

\* C23: when P1 provided foo and bar, P2 provided foo again and C, which
\* provides nothing, injects foo and bar, C receives the value of P2 for foo
\* and the value of P1 for bar; S, the other child of P1, receives P1's foo.
C23_NearestProviderWins ==
  (/\ provideLog["P1"]["foo"] # NoValue
   /\ provideLog["P1"]["bar"] # NoValue
   /\ provideLog["P2"]["foo"] # NoValue
   /\ provideLog["P2"]["bar"] = NoValue)
  =>
   /\ (\A k \in InjectionKeys : provideLog["C"][k] = NoValue) =>
        /\ injected["C"]["foo"] \in {NotInjected, provideLog["P2"]["foo"]}
        /\ injected["C"]["bar"] \in {NotInjected, provideLog["P1"]["bar"]}
   /\ provideLog["S"]["foo"] = NoValue =>
        injected["S"]["foo"] \in {NotInjected, provideLog["P1"]["foo"]}

\* parent.provides of instance i (appContext.provides for the root)
ParentProvides(i) ==
  IF InstParent(i) = "none" THEN AppProvides ELSE instProvides[InstParent(i)]

\* C39: what inject(key) returned to a component in its setup is what the
\* provides of its parent (its ancestors and the app) hold for the key, never
\* a value the component provided itself.
C39_InjectFromAncestorsOnly ==
  \A i \in Consumers, k \in InjectionKeys :
    injected[i][k] # NotInjected =>
      injected[i][k] = Lookup(providesObjs, ParentProvides(i), k)

\* C23 witness: P1 provided foo = a and bar = b, P2 provided foo = b, and C
\* injected both
C23_Witness ==
  /\ provideLog["P1"] = [foo |-> "a", bar |-> "b"]
  /\ provideLog["P2"] = [foo |-> "b", bar |-> NoValue]
  /\ injected["C"] = [foo |-> "b", bar |-> "b"]
  /\ injected["S"]["foo"] = "a"

(***************************************************************************)
(* Template parsing: the children of an element and their whitespace       *)
(* (parseChildren, pushNode, parseText of compiler-core/src/parse.ts)      *)
(***************************************************************************)
MaxTemplateLen == 4   \* entries of the source between <p> and </p>

\* a child element <i></i> and a comment <!----> are one entry each
ElementToken == "<i></i>"
CommentToken == "<!---->"

\* [\t\r\n\f ]
WhitespaceChars == {" ", "\n"}

TemplateChars == WhitespaceChars \cup {"a", "b"} \cup {ElementToken, CommentToken}

\* the source of the example: two spaces, a, two spaces, newline, two
\* spaces, b, two spaces
ExampleTemplate == <<" ", " ", "a", " ", " ", "\n", " ", " ", "b", " ", " ">>

TemplateInputs == SeqsUpTo(TemplateChars, MaxTemplateLen) \cup {ExampleTemplate}

\* a child node with its source range
ChildNode(type, content, start, end) ==
  [type |-> type, content |-> content, start |-> start, end |-> end]

\* parseText: the text ends before the next tag
TextEnd(src, from) ==
  LET tags == {k \in (from + 1)..Len(src) : src[k] \in {ElementToken, CommentToken}}
  IN IF tags = {} THEN Len(src) ELSE (CHOOSE k \in tags : \A m \in tags : k <= m) - 1

\* pushNode(nodes, node)
pushNode(nodes, node, isDev) ==
  IF ~isDev /\ node.type = "comment" THEN nodes
  ELSE IF /\ node.type = "text"
          /\ nodes # <<>>
          /\ Last(nodes).type = "text"
          /\ Last(nodes).end = node.start
  THEN Front(nodes) \o <<[Last(nodes) EXCEPT !.content = @ \o node.content,
                                              !.end = node.end]>>
  ELSE Append(nodes, node)

RECURSIVE ParseLoop(_, _, _, _)
\* the while loop of parseChildren from entry `from` on; offsets count entries
ParseLoop(src, from, nodes, isDev) ==
  IF from > Len(src) THEN nodes
  ELSE IF src[from] = ElementToken
  THEN ParseLoop(src, from + 1,
                 pushNode(nodes, ChildNode("element", <<>>, from - 1, from), isDev), isDev)
  ELSE IF src[from] = CommentToken
  THEN ParseLoop(src, from + 1,
                 pushNode(nodes, ChildNode("comment", <<>>, from - 1, from), isDev), isDev)
  ELSE LET to == TextEnd(src, from)
       IN ParseLoop(src, to + 1,
                    pushNode(nodes, ChildNode("text", SubSeq(src, from, to), from - 1, to),
                             isDev), isDev)

\* content.replace that leaves the whitespace as it is
KeepRuns(content) == content

RECURSIVE CollapseRuns(_)
\* content.replace(/[\t\r\n\f ]+/g, ' ')
CollapseRuns(content) ==
  IF content = <<>> THEN <<>>
  ELSE IF Head(content) \in WhitespaceChars
  THEN IF Len(content) > 1 /\ content[2] \in WhitespaceChars
       THEN CollapseRuns(Tail(content))
       ELSE <<" ">> \o CollapseRuns(Tail(content))
  ELSE <<Head(content)>> \o CollapseRuns(Tail(content))

\* !/[^\t\r\n\f ]/.test(node.content)
OnlyWhitespace(content) == \A k \in 1..Len(content) : content[k] \in WhitespaceChars

\* the whitespace node i of nodes is ignored
IgnoredWhitespace(nodes, i) ==
  \/ i = 1
  \/ i = Len(nodes)
  \/ nodes[i - 1].type = "comment"
  \/ nodes[i + 1].type = "comment"
  \/ /\ nodes[i - 1].type = "element"
     /\ nodes[i + 1].type = "element"
     /\ \E k \in 1..Len(nodes[i].content) : nodes[i].content[k] = "\n"

\* the whitespace management of parseChildren (not RAWTEXT, not inPre) and
\* the final filter
CondenseWhitespace(nodes) ==
  LET dropped == {i \in 1..Len(nodes) :
                    /\ nodes[i].type = "text"
                    /\ OnlyWhitespace(nodes[i].content)
                    /\ IgnoredWhitespace(nodes, i)}
      condensed == [i \in 1..Len(nodes) |->
                      IF nodes[i].type # "text" THEN nodes[i]
                      ELSE IF OnlyWhitespace(nodes[i].content)
                      THEN [nodes[i] EXCEPT !.content = <<" ">>]
                      ELSE [nodes[i] EXCEPT !.content = CollapseRuns(@)]]
      RECURSIVE Filter(_)
      Filter(i) == IF i > Len(nodes) THEN <<>>
                   ELSE IF i \in dropped THEN Filter(i + 1)
                   ELSE <<condensed[i]>> \o Filter(i + 1)
  IN Filter(1)

\* parseChildren(context, DATA, ancestors) on src
parseChildren(src, isDev) == CondenseWhitespace(ParseLoop(src, 1, <<>>, isDev))

InitParse ==
  /\ CoreIdle
  /\ ExtIdleExcept("parse")
  /\ templateSrc \in TemplateInputs
  /\ keepComments \in BOOLEAN
  /\ parsedAst = NotParsed

\* parseElement of <p>templateSrc</p>
ParseElement ==
  /\ parsedAst = NotParsed
  /\ parsedAst' = [type |-> "element", tag |-> "p",
                   children |-> parseChildren(templateSrc, keepComments)]
  /\ UNCHANGED <<templateSrc, keepComments>>
  /\ UNCHANGED nonParseVars

NextParse == ParseElement

SpecParse == InitParse /\ [][NextParse]_vars

\* the contents of the children of the parsed element
ChildContents == [i \in 1..Len(parsedAst.children) |-> parsedAst.children[i].content]

\* C25 as stated: the example yields one element whose only child is a text
\* node with content "a b".
C25_ExampleTrimmed ==
  (templateSrc = ExampleTemplate /\ parsedAst # NotParsed) =>
    /\ parsedAst.type = "element"
    /\ Len(parsedAst.children) = 1
    /\ parsedAst.children[1].type = "text"
    /\ ChildContents = <<(<<"a", " ", "b">>)>>

\* C25: the example yields one element whose only child is a text node with
\* content " a b ": every whitespace run, the leading and the trailing one
\* included, is collapsed to one space and none is removed.
C25_ExampleCollapsed ==
  (templateSrc = ExampleTemplate /\ parsedAst # NotParsed) =>
    /\ parsedAst.type = "element"
    /\ Len(parsedAst.children) = 1
    /\ parsedAst.children[1].type = "text"
    /\ ChildContents = <<(<<" ", "a", " ", "b", " ">>)>>

\* C25 witness: the example was parsed into one text child
C25_Witness ==
  /\ templateSrc = ExampleTemplate
  /\ parsedAst.type = "element"
  /\ Len(parsedAst.children) = 1
  /\ Len(parsedAst.children[1].content) = 5

(***************************************************************************)
(* Ref cells: createRef                                                    *)
(***************************************************************************)

MaxSets == 3    \* writes of r.value

\* two primitives, two plain objects and their reactive proxies
RawObjects == {"O1", "O2"}
Proxies == {"P1", "P2"}
RefValues == {"zero", "one"} \cup RawObjects \cup Proxies
RefEffects == {"e1", "e2"}

\* reactive(target) of a plain object or of a reactive proxy
ReactiveOf(v) ==
  IF v = "O1" THEN "P1" ELSE IF v = "O2" THEN "P2" ELSE v

\* toRaw(observed)
ToRaw(v) == IF v = "P1" THEN "O1" ELSE IF v = "P2" THEN "O2" ELSE v

\* convert(val): isObject(val) ? reactive(val) : val
Convert(v) == IF v \in RawObjects \cup Proxies THEN ReactiveOf(v) ELSE v

\* hasChanged(value, oldValue): the comparison by identity
HasChanged(value, oldValue) == value # oldValue

\* set value(newVal): if (hasChanged(toRaw(newVal), rawValue))
SetChanged(newVal, raw) == HasChanged(ToRaw(newVal), raw)

\* createRef(rawValue, shallow) of a value that is not a ref
InitRef ==
  /\ CoreIdle
  /\ ExtIdleExcept("ref")
  /\ refShallow \in BOOLEAN
  /\ refRaw \in RefValues
  /\ refVal = (IF refShallow THEN refRaw ELSE Convert(refRaw))
  /\ refDep = {}
  /\ refSets = 0
  /\ refLast = NoSet

\* an effect reads r.value: track(r, GET, 'value')
RefGet(x) ==
  /\ x \notin refDep
  /\ refDep' = refDep \cup {x}
  /\ refLast' = [NoSet EXCEPT !.before = refLast.newVal]
  /\ UNCHANGED <<refShallow, refRaw, refVal, refSets>>
  /\ UNCHANGED nonRefVars

\* outside code writes r.value = newVal; trigger(r, SET, 'value') runs the
\* effects of the dep, each of which reads r.value again
RefSet(newVal) ==
  /\ refSets < MaxSets
  /\ refSets' = refSets + 1
  /\ IF SetChanged(newVal, refRaw)
     THEN /\ refRaw' = newVal
          /\ refVal' = (IF refShallow THEN newVal ELSE Convert(newVal))
          /\ refLast' = [newVal |-> newVal, stored |-> refVal,
                         before |-> refLast.newVal, triggered |-> TRUE, ran |-> refDep]
     ELSE /\ refLast' = [newVal |-> newVal, stored |-> refVal,
                         before |-> refLast.newVal, triggered |-> FALSE, ran |-> {}]
          /\ UNCHANGED <<refRaw, refVal>>
  /\ UNCHANGED <<refShallow, refDep>>
  /\ UNCHANGED nonRefVars

NextRef ==
  \/ \E x \in RefEffects : RefGet(x)
  \/ \E v \in RefValues : RefSet(v)

SpecRef == InitRef /\ [][NextRef]_vars

\* C37: a write of r.value runs the effects that depend on the ref only if the
\* new value is not identical to the value stored at that moment, and a write
\* of the value that the write before it wrote runs none of them.
C37_TriggersOnlyIfChanged ==
  refLast.newVal # "none" =>
    /\ refLast.ran # {} => refLast.newVal # refLast.stored
    /\ refLast.newVal = refLast.before => refLast.ran = {}

(***************************************************************************)
(* Key enumeration: ownKeys, set, deleteProperty and trigger               *)
(***************************************************************************)

MaxItOps == 3    \* writes to the target

\* the keys written: for an array they are the indices 0 and 1
ItKeys == {"k0", "k1"}
KeyIndex(k) == IF k = "k0" THEN 0 ELSE 1
ItValues == {0, 1}
NoKey == -1

\* const ITERATE_KEY = Symbol('iterate')
ITERATE_KEY == "Symbol(iterate)"
DepKeys == ItKeys \cup {"length", ITERATE_KEY}

\* three effects: one enumerates the keys (Object.keys(target), for ... in),
\* one reads target.length, one reads target[k0]
ItEffects == {"enumerates", "readsLength", "readsKey"}
TrackedKey(x) ==
  IF x = "enumerates" THEN ITERATE_KEY
  ELSE IF x = "readsLength" THEN "length" ELSE "k0"

\* trigger: isArray(target) ? 'length' : ITERATE_KEY
IterationKey(isArr) == IF isArr THEN "length" ELSE ITERATE_KEY

\* trigger(target, type, key) for ADD, SET and DELETE of a key other than
\* 'length': the effects it runs
TriggerKey(d, isArr, type, key) ==
  LET isAddOrDelete == type = "ADD" \/ (type = "DELETE" /\ ~isArr)
  IN d[key] \cup (IF isAddOrDelete THEN d[IterationKey(isArr)] ELSE {})

\* trigger(target, SET, 'length', newValue) of an array: depsMap.forEach adds
\* the deps of 'length' and of every key >= newValue
TriggerLength(d, newValue) ==
  d["length"] \cup UNION {d[k] : k \in {j \in ItKeys : KeyIndex(j) >= newValue}}

HadKey(t, k) == t[k] # NoKey

InitIter ==
  /\ CoreIdle
  /\ ExtIdleExcept("iterate")
  /\ itIsArray \in BOOLEAN
  /\ itTarget = [k \in ItKeys |-> NoKey]
  /\ itLength = 0
  /\ itDeps = [k \in DepKeys |-> {}]
  /\ itOps = 0
  /\ itLast = NoWrite

\* effect(fn) runs fn for the first time: ownKeys tracks ITERATE_KEY, get
\* tracks the key read
ItRun(x) ==
  /\ x \notin itDeps[TrackedKey(x)]
  /\ itDeps' = [itDeps EXCEPT ![TrackedKey(x)] = @ \cup {x}]
  /\ itLast' = NoWrite
  /\ UNCHANGED <<itIsArray, itTarget, itLength, itOps>>
  /\ UNCHANGED nonIterVars

\* outside code writes proxy[k] = v: the set trap. The effects that trigger
\* runs track the same keys again.
ItSet(k, v) ==
  /\ itOps < MaxItOps
  /\ itOps' = itOps + 1
  /\ itTarget' = [itTarget EXCEPT ![k] = v]
  /\ itLength' = IF itIsArray /\ KeyIndex(k) >= itLength THEN KeyIndex(k) + 1 ELSE itLength
  /\ itLast' =
       IF ~HadKey(itTarget, k)
       THEN [type |-> "ADD", keysChanged |-> TRUE, enumerators |-> itDeps[ITERATE_KEY],
             ran |-> TriggerKey(itDeps, itIsArray, "ADD", k), threw |-> FALSE]
       ELSE IF v # itTarget[k]
       THEN [type |-> "SET", keysChanged |-> FALSE, enumerators |-> itDeps[ITERATE_KEY],
             ran |-> TriggerKey(itDeps, itIsArray, "SET", k), threw |-> FALSE]
       ELSE [NoWrite EXCEPT !.type = "same", !.enumerators = itDeps[ITERATE_KEY]]
  /\ UNCHANGED <<itIsArray, itDeps>>
  /\ UNCHANGED nonIterVars

\* outside code runs delete proxy[k]: the deleteProperty trap
ItDelete(k) ==
  /\ itOps < MaxItOps
  /\ itOps' = itOps + 1
  /\ itTarget' = [itTarget EXCEPT ![k] = NoKey]
  /\ itLast' =
       IF HadKey(itTarget, k)
       THEN [type |-> "DELETE", keysChanged |-> TRUE, enumerators |-> itDeps[ITERATE_KEY],
             ran |-> TriggerKey(itDeps, itIsArray, "DELETE", k), threw |-> FALSE]
       ELSE [NoWrite EXCEPT !.type = "same", !.enumerators = itDeps[ITERATE_KEY]]
  /\ UNCHANGED <<itIsArray, itLength, itDeps>>
  /\ UNCHANGED nonIterVars

\* outside code writes proxy.length = n for an array: the set trap with the
\* key 'length'. In trigger, key >= newValue throws a TypeError when key is
\* the symbol ITERATE_KEY, before any effect is run.
ItSetLength(n) ==
  /\ itIsArray
  /\ itOps < MaxItOps
  /\ itOps' = itOps + 1
  /\ itLength' = n
  /\ itTarget' = [k \in ItKeys |-> IF KeyIndex(k) >= n THEN NoKey ELSE itTarget[k]]
  /\ itLast' =
       IF n = itLength
       THEN [NoWrite EXCEPT !.type = "same", !.enumerators = itDeps[ITERATE_KEY]]
       ELSE [type |-> "LENGTH",
             keysChanged |-> \E k \in ItKeys : KeyIndex(k) >= n /\ HadKey(itTarget, k),
             enumerators |-> itDeps[ITERATE_KEY],
             ran |-> IF itDeps[ITERATE_KEY] # {} THEN {} ELSE TriggerLength(itDeps, n),
             threw |-> itDeps[ITERATE_KEY] # {}]
  /\ UNCHANGED <<itIsArray, itDeps>>
  /\ UNCHANGED nonIterVars

NextIter ==
  \/ \E x \in ItEffects : ItRun(x)
  \/ \E k \in ItKeys, v \in ItValues : ItSet(k, v)
  \/ \E k \in ItKeys : ItDelete(k)
  \/ \E n \in 0..2 : ItSetLength(n)

SpecIter == InitIter /\ [][NextIter]_vars

\* C38: a write that adds a key to the target or deletes one from it runs
\* every effect that had enumerated the target's keys, whether the target is
\* an array or a plain object.
C38_EnumeratorsNotified ==
  itLast.type \in {"ADD", "DELETE"} => itLast.enumerators \subseteq itLast.ran

(***************************************************************************)
(* Prop defaults and dependency tracking: resolvePropValue called by       *)
(* initProps (setupComponent) and by updateProps (the render effect)       *)
(***************************************************************************)

\* the default of a declared prop
DefaultKinds == {"none", "value", "function"}

\* what the parent passes for a prop
PassedValues == {"undefined", "x", NoProp}

\* the effect that is running when the props are resolved: none (the root is
\* mounted by outside code), the parent's render effect (the component is
\* mounted while the parent is patched), the component's own render effect
\* (updateComponentPreRender)
RenderEffects == {"none", "parentRender", "ownRender"}

\* the mutated call of the default: tracking is paused around it
TrackDefaultPaused(d, ae, st, key) == d

\* track(target, GET, key) for the read the default function of `key` makes
TrackDefault(d, ae, st, key) ==
  IF ~st \/ ae = "none" THEN d ELSE [d EXCEPT ![key] = @ \cup {ae}]

\* resolvePropValue: hasDefault && value === undefined && isFunction(defaultValue)
InvokesDefault(options, key, value) ==
  options[key] = "function" /\ value = "undefined"

\* initProps → setFullProps: resolvePropValue(options, props, key, props[key])
\* for each of needCastKeys; the props whose default function it invokes
InvokedByInit(options, raw) ==
  {k \in PropKeys : InvokesDefault(options, k, ReadProp(raw, k))}

\* updateProps with full props. setFullProps resolves each of needCastKeys
\* from the current props object, where a prop that is not passed still has
\* the value resolved before; after it, resolvePropValue(options, rawProps,
\* key, undefined) for each prop that is no longer passed and whose
\* rawPrevProps value was not undefined.
InvokedByUpdate(options, raw, prev) ==
  {k \in PropKeys :
     \/ raw[k] # NoProp /\ InvokesDefault(options, k, raw[k])
     \/ raw[k] = NoProp /\ ReadProp(prev, k) # "undefined"
          /\ InvokesDefault(options, k, "undefined")}

\* the dep Sets after the default functions of the props in `ks` ran
RECURSIVE TrackDefaults(_, _, _, _)
TrackDefaults(d, ae, st, ks) ==
  IF ks = {} THEN d
  ELSE LET k == CHOOSE x \in ks : TRUE
       IN TrackDefaults(TrackDefault(d, ae, st, k), ae, st, ks \ {k})

InitDefaults ==
  /\ CoreIdle
  /\ ExtIdleExcept("defaults")
  /\ dfOptions \in [PropKeys -> DefaultKinds]
  /\ dfRawProps \in [PropKeys -> PassedValues]
  /\ dfUpdating \in BOOLEAN
  /\ dfPrevProps \in (IF dfUpdating THEN [PropKeys -> PassedValues]
                      ELSE {[k \in PropKeys |-> NoProp]})
  /\ dfActiveEffect \in (IF dfUpdating THEN {"ownRender"} ELSE {"none", "parentRender"})
  /\ dfShouldTrack \in (IF dfUpdating THEN {TRUE} ELSE BOOLEAN)
  /\ dfDeps = [k \in PropKeys |-> {}]
  /\ dfInvoked = {}
  /\ dfDone = FALSE

\* setupComponent: initProps
DfInitProps ==
  /\ ~dfDone /\ ~dfUpdating
  /\ dfInvoked' = InvokedByInit(dfOptions, dfRawProps)
  /\ dfDeps' = TrackDefaults(dfDeps, dfActiveEffect, dfShouldTrack, dfInvoked')
  /\ dfDone' = TRUE
  /\ UNCHANGED <<dfOptions, dfRawProps, dfPrevProps, dfUpdating, dfActiveEffect,
                 dfShouldTrack>>
  /\ UNCHANGED nonDefVars

\* updateComponentPreRender: updateProps
DfUpdateProps ==
  /\ ~dfDone /\ dfUpdating
  /\ dfInvoked' = InvokedByUpdate(dfOptions, dfRawProps, dfPrevProps)
  /\ dfDeps' = TrackDefaults(dfDeps, dfActiveEffect, dfShouldTrack, dfInvoked')
  /\ dfDone' = TRUE
  /\ UNCHANGED <<dfOptions, dfRawProps, dfPrevProps, dfUpdating, dfActiveEffect,
                 dfShouldTrack>>
  /\ UNCHANGED nonDefVars

NextDefaults == DfInitProps \/ DfUpdateProps

SpecDefaults == InitDefaults /\ [][NextDefaults]_vars

\* C36 as stated: the reads that an invoked default function makes are
\* recorded as dependencies of no effect.
C36_DefaultUntracked ==
  dfDone => \A k \in dfInvoked : dfDeps[k] = {}

\* C36: the reads that an invoked default function makes are recorded as
\* dependencies of the effect that is active when the props are resolved,
\* and of no effect exactly when none is active or tracking is paused there.
C36_DefaultTrackedAsCaller ==
  dfDone =>
    \A k \in dfInvoked :
      dfDeps[k] = IF dfActiveEffect = "none" \/ ~dfShouldTrack THEN {}
                  ELSE {dfActiveEffect}

\* C36 witness: a component with a function default for a prop that is not
\* passed was mounted while its parent's render effect was running, and the
\* read of the default function made that effect a dependent
C36_Witness ==
  /\ dfDone
  /\ "flag" \in dfInvoked
  /\ dfActiveEffect = "parentRender"
  /\ dfDeps["flag"] = {"parentRender"}

(***************************************************************************)
(* The host element of component vnodes: the update branch of              *)
(* componentEffect (setupRenderEffect)                                     *)
(***************************************************************************)

MaxHocUpdates == 2    \* self-triggered updates

\* a chain of three components: Outer renders Middle, Middle renders Inner,
\* Inner renders host elements
HocComps == {"Outer", "Middle", "Inner"}
HocParents == {"Outer", "Middle"}
ParentOf(i) == IF i = "Inner" THEN "Middle" ELSE IF i = "Middle" THEN "Outer" ELSE "none"
ChildOf(i) == IF i = "Outer" THEN "Middle" ELSE IF i = "Middle" THEN "Inner" ELSE "none"

\* the root elements before any update, and the elements that renders create
OwnEl(i) == IF i = "Outer" THEN "div-outer" ELSE IF i = "Middle" THEN "div-middle" ELSE "div-inner"
NewEls == {"span-1", "span-2"}
HostEls == NewEls \cup {OwnEl(i) : i \in HocComps}

\* the components whose root host element is the root host element of i:
\* i and, while the subTree is the child's component vnode, the child
RECURSIVE SharesRootDown(_, _)
SharesRootDown(wraps, i) ==
  IF i \in HocParents /\ wraps[i] THEN {i} \cup SharesRootDown(wraps, ChildOf(i)) ELSE {i}

\* the higher-order-component ancestors of i: the parent whose subTree is
\* i's vnode, its parent if that one's subTree is the parent's vnode, ...
RECURSIVE HocAncestors(_, _)
HocAncestors(wraps, i) ==
  IF ParentOf(i) # "none" /\ wraps[ParentOf(i)]
  THEN {ParentOf(i)} \cup HocAncestors(wraps, ParentOf(i))
  ELSE {}

\* updateHOCHostEl(instance, el): vnode.el of every such ancestor is set
updateHOCHostEl(els, wraps, i, el) ==
  [p \in HocComps |-> IF p \in HocAncestors(wraps, i) THEN el ELSE els[p]]

\* let { next } = instance; if (next) updateComponentPreRender(...) else next = vnode
NextAfterBranch(next, vnode) == IF next # "null" THEN next ELSE vnode

\* if (next === null): the test made after the patch
IsSelfTriggered(next) == next = "null"

\* the root element of a component before any update
InitialEl(wraps, i) ==
  LET down == SharesRootDown(wraps, i)
  IN OwnEl(CHOOSE j \in down : ChildOf(j) \notin down)

InitHoc ==
  /\ CoreIdle
  /\ ExtIdleExcept("hoc")
  /\ hcWraps \in [HocParents -> BOOLEAN]
  /\ hcVNodeEl = [i \in HocComps |-> InitialEl(hcWraps, i)]
  /\ hcUpdates = 0
  /\ hcLast = NoUpdate

\* the update job of component i runs after a change of i's own state
\* (instance.next is null); the patch of its subTree leaves el as the root
\* host element. When the subTree is a child component's vnode, the child
\* is updated by the patch and its vnode gets the same el.
HcSelfUpdate(i, el) ==
  /\ hcUpdates < MaxHocUpdates
  /\ el \in NewEls \cup {hcVNodeEl[i]}
  /\ hcUpdates' = hcUpdates + 1
  /\ LET next == NextAfterBranch("null", "vnode")
         patched == [j \in HocComps |->
                       IF j \in SharesRootDown(hcWraps, i) THEN el ELSE hcVNodeEl[j]]
     IN hcVNodeEl' = IF IsSelfTriggered(next)
                     THEN updateHOCHostEl(patched, hcWraps, i, el)
                     ELSE patched
  /\ hcLast' = [inst |-> i, el |-> el, changed |-> el # hcVNodeEl[i]]
  /\ UNCHANGED hcWraps
  /\ UNCHANGED nonHocVars

NextHoc ==
  \E i \in HocComps, el \in HostEls : HcSelfUpdate(i, el)

SpecHoc == InitHoc /\ [][NextHoc]_vars

\* C35: after a self-triggered update that changed the root host element of
\* a component, vnode.el of every higher-order-component ancestor is the new
\* element.
C35_HostElPropagated ==
  hcLast.changed =>
    \A p \in HocAncestors(hcWraps, hcLast.inst) : hcVNodeEl[p] = hcLast.el

=============================================================================
